---- MODULE Spec2Model ----
(***************************************************************************)
(* A model of the SPath evaluator (cratesland/spath): selectors, segments, *)
(* queries, located queries and filter comparisons, evaluated over a       *)
(* variant value.                                                          *)
(*                                                                         *)
(* The queried value is a heap: node ids 1..N, node 1 is the root, and     *)
(* tree[n] = [t, val, kids, keys].  A node reference (&T in the source)    *)
(* is a node id, so two equal values at different places are different     *)
(* nodes.  Option<X> is <<>> for None and <<x>> for Some(x).               *)
(***************************************************************************)
EXTENDS Integers, Sequences, FiniteSets, Bags, TLC

\* overflow_checks is the build profile: arithmetic overflow panics when it
\* is on (debug) and wraps around when it is off (release)
VARIABLES tree, cur, query, nodes, located, outcome, text, parsed, pc,
          overflow_checks

vars == <<tree, cur, query, nodes, located, outcome, text, parsed, pc, overflow_checks>>

(***************************************************************************)
(* Bounds of the model.                                                    *)
(***************************************************************************)
\* the width of the safe-integer range: MAX = 2^SafeBits - 1 stands for the
\* source's 2^53 - 1 (TLC integers are 32 bits wide)
SafeBits == 4
\* the longest array of the slice / index specifications, the longest node
\* list, the most selectors of a bracketed segment
MaxLen == 3
\* the number of nodes of the largest queried value of the query specification
MaxNodes == 3
\* the longest member name of the round-trip and path-display specifications
MaxNameLen == 2
\* the most elements of the filtered array or object of the existence
\* specification, of a formatted path, and pieces of a string literal
MaxElems == 2
\* the most declared parameters and actual arguments of a validated call
MaxParams == 2

None == <<>>
Some(x) == <<x>>

(***************************************************************************)
(* Generic helpers on sequences.                                           *)
(***************************************************************************)
RECURSIVE Flatten(_)
Flatten(ss) == IF ss = <<>> THEN <<>> ELSE Head(ss) \o Flatten(Tail(ss))

Range(s) == {s[i] : i \in 1..Len(s)}

RECURSIVE SeqToBag(_)
SeqToBag(s) == IF s = <<>> THEN EmptyBag ELSE SetToBag({Head(s)}) (+) SeqToBag(Tail(s))

Min2(a, b) == IF a < b THEN a ELSE b
Max2(a, b) == IF a < b THEN b ELSE a

(***************************************************************************)
(* spec/integer.rs: Integer, the RFC 7493 safe integer.                    *)
(***************************************************************************)
MAX == 2^SafeBits - 1
MIN == 1 - 2^SafeBits

check_i64_is_valid(v) == MIN <= v /\ v <= MAX

checked_add(a, b) == IF check_i64_is_valid(a + b) THEN Some(a + b) ELSE None
checked_sub(a, b) == IF check_i64_is_valid(a - b) THEN Some(a - b) ELSE None
checked_mul(a, b) == IF check_i64_is_valid(a * b) THEN Some(a * b) ELSE None

Abs(a) == IF a < 0 THEN -a ELSE a

unwrap_or(o, d) == IF o = None THEN d ELSE o[1]

\* Integer::try_from(usize)
IntegerTryFrom(n) == IF check_i64_is_valid(n) THEN Some(n) ELSE None

(***************************************************************************)
(* The variant value (value.rs VariantValue, ConcreteVariantArray,         *)
(* ConcreteVariantObject) over the heap.                                   *)
(***************************************************************************)
as_array(T, n) == IF T[n].t = "arr" THEN Some(T[n].kids) ELSE None
as_object(T, n) == IF T[n].t = "obj" THEN Some(n) ELSE None

\* ConcreteVariantArray::get
ArrayGet(list, i) == IF 0 <= i /\ i < Len(list) THEN Some(list[i + 1]) ELSE None

\* ConcreteVariantObject::get, get_key_value: the member with that key
ObjectGet(T, n, key) ==
    LET hits == {i \in 1..Len(T[n].kids) : T[n].keys[i] = key}
    IN  IF hits = {} THEN None ELSE Some(T[n].kids[CHOOSE i \in hits : TRUE])

Leaf(ty, v) == [t |-> ty, val |-> v, kids |-> <<>>, keys |-> <<>>]


(***************************************************************************)
(* path.rs: NormalizedPath, a sequence of PathElement; node.rs:            *)
(* LocatedNode, a path paired with a node reference.                       *)
(***************************************************************************)
PathName(k) == [k |-> "Name", name |-> k]
PathIndex(i) == [k |-> "Index", index |-> i]

clone_and_push(parent, elem) == Append(parent, elem)

LocatedNode(loc, node) == [loc |-> loc, node |-> node]

(***************************************************************************)
(* spec/selector/slice.rs: the array slice selector.                       *)
(***************************************************************************)
Slice(start, end, step) == [k |-> "slice", start |-> start, end |-> end, step |-> step]

\* a normalisation that subtracts the index itself, not its absolute value
normalize_slice_index_signed(index, len) ==
    IF index >= 0 THEN Some(index) ELSE checked_sub(len, index)

normalize_slice_index(index, len) ==
    IF index >= 0 THEN Some(index) ELSE checked_sub(len, Abs(index))

\* bounds that are not clamped to the length of the array
bounds_on_forward_slice_Unclamped(s, len) ==
    LET start_default == unwrap_or(s.start, 0)
        end_default == unwrap_or(s.end, len)
        start == Max2(unwrap_or(normalize_slice_index(start_default, len), 0), 0)
        end == Max2(unwrap_or(normalize_slice_index(end_default, len), 0), 0)
    IN  <<start, end>>

bounds_on_forward_slice(s, len) ==
    LET start_default == unwrap_or(s.start, 0)
        end_default == unwrap_or(s.end, len)
        start == Max2(unwrap_or(normalize_slice_index(start_default, len), 0), 0)
        end == Max2(unwrap_or(normalize_slice_index(end_default, len), 0), 0)
        lower == Min2(start, len)
        upper == Min2(end, len)
    IN  <<lower, upper>>

\* Option<(lower, upper)>: None when a default cannot be computed
bounds_on_reverse_slice(s, len) ==
    LET start_default == IF s.start # None THEN s.start ELSE checked_sub(len, 1)
        neg_len == checked_mul(len, -1)
        end_default == IF s.end # None THEN s.end
                       ELSE IF neg_len = None THEN None
                       ELSE checked_sub(neg_len[1], 1)
        last == unwrap_or(checked_sub(len, 1), len)
    IN  IF start_default = None \/ end_default = None THEN None
        ELSE LET start == Max2(unwrap_or(normalize_slice_index(start_default[1], len), 0), -1)
                 end == Max2(unwrap_or(normalize_slice_index(end_default[1], len), 0), -1)
                 lower == Min2(end, last)
                 upper == Min2(start, last)
             IN  Some(<<lower, upper>>)

\* the loop `while i < upper` of Slice::query
RECURSIVE SliceForwardLoop(_, _, _, _)
SliceForwardLoop(list, i, upper, step) ==
    IF ~(i < upper) THEN <<>>
    ELSE LET v == ArrayGet(list, i)
             next == checked_add(i, step)
         IN  (IF v = None THEN <<>> ELSE <<v[1]>>)
             \o (IF next = None THEN <<>>
                 ELSE SliceForwardLoop(list, next[1], upper, step))

\* the loop `while lower < i` of Slice::query
RECURSIVE SliceReverseLoop(_, _, _, _)
SliceReverseLoop(list, i, lower, step) ==
    IF ~(lower < i) THEN <<>>
    ELSE LET v == ArrayGet(list, i)
             next == checked_add(i, step)
         IN  (IF v = None THEN <<>> ELSE <<v[1]>>)
             \o (IF next = None THEN <<>>
                 ELSE SliceReverseLoop(list, next[1], lower, step))

SliceQuery(T, s, current) ==
    LET arr == as_array(T, current)
    IN  IF arr = None THEN <<>>
        ELSE LET list == arr[1]
                 step == unwrap_or(s.step, 1)
                 len == IntegerTryFrom(Len(list))
             IN  IF step = 0 THEN <<>>
                 ELSE IF len = None THEN <<>>
                 ELSE IF step > 0
                      THEN LET b == bounds_on_forward_slice(s, len[1])
                           IN  SliceForwardLoop(list, b[1], b[2], step)
                      ELSE LET b == bounds_on_reverse_slice(s, len[1])
                           IN  IF b = None THEN <<>>
                               ELSE SliceReverseLoop(list, b[1][2], b[1][1], step)

\* the loop `while i < upper` of Slice::query_located
RECURSIVE SliceLocatedForwardLoop(_, _, _, _, _)
SliceLocatedForwardLoop(list, i, upper, step, parent) ==
    IF ~(i < upper) THEN <<>>
    ELSE LET v == ArrayGet(list, i)
             next == checked_add(i, step)
         IN  (IF v = None THEN <<>>
              ELSE <<LocatedNode(clone_and_push(parent, PathIndex(i)), v[1])>>)
             \o (IF next = None THEN <<>>
                 ELSE SliceLocatedForwardLoop(list, next[1], upper, step, parent))

\* the loop `while lower < i` of Slice::query_located
RECURSIVE SliceLocatedReverseLoop(_, _, _, _, _)
SliceLocatedReverseLoop(list, i, lower, step, parent) ==
    IF ~(lower < i) THEN <<>>
    ELSE LET v == ArrayGet(list, i)
             next == checked_add(i, step)
         IN  (IF v = None THEN <<>>
              ELSE <<LocatedNode(clone_and_push(parent, PathIndex(i)), v[1])>>)
             \o (IF next = None THEN <<>>
                 ELSE SliceLocatedReverseLoop(list, next[1], lower, step, parent))

SliceQueryLocated(T, s, current, parent) ==
    LET arr == as_array(T, current)
    IN  IF arr = None THEN <<>>
        ELSE LET list == arr[1]
                 step == unwrap_or(s.step, 1)
                 len == IntegerTryFrom(Len(list))
             IN  IF step = 0 THEN <<>>
                 ELSE IF len = None THEN <<>>
                 ELSE IF step > 0
                      THEN LET b == bounds_on_forward_slice(s, len[1])
                           IN  SliceLocatedForwardLoop(list, b[1], b[2], step, parent)
                      ELSE LET b == bounds_on_reverse_slice(s, len[1])
                           IN  IF b = None THEN <<>>
                               ELSE SliceLocatedReverseLoop(list, b[1][2], b[1][1],
                                                            step, parent)

(***************************************************************************)
(* spec/selector/index.rs: the index selector.                             *)
(***************************************************************************)
Index(i) == [k |-> "index", index |-> i]

\* a resolution that counts a negative index from the front
resolve_index_abs(index, len) ==
    LET idx == Abs(index)
    IN  IF idx < len THEN Some(idx) ELSE None

\* Option<usize>
resolve_index(index, len) ==
    LET idx == IF index >= 0 THEN Some(index)
               ELSE IF len + index >= 0 THEN Some(len + index) ELSE None
    IN  IF idx = None THEN None
        ELSE IF idx[1] < len THEN idx ELSE None

IndexQuery(T, s, current) ==
    LET arr == as_array(T, current)
    IN  IF arr = None THEN <<>>
        ELSE LET idx == resolve_index(s.index, Len(arr[1]))
             IN  IF idx = None THEN <<>>
                 ELSE LET v == ArrayGet(arr[1], idx[1])
                      IN  IF v = None THEN <<>> ELSE <<v[1]>>

IndexQueryLocated(T, s, current, parent) ==
    LET arr == as_array(T, current)
    IN  IF arr = None THEN <<>>
        ELSE LET idx == resolve_index(s.index, Len(arr[1]))
             IN  IF idx = None THEN <<>>
                 ELSE LET v == ArrayGet(arr[1], idx[1])
                      IN  IF v = None THEN <<>>
                          ELSE <<LocatedNode(Append(parent, PathIndex(idx[1])), v[1])>>

(***************************************************************************)
(* spec/selector/name.rs and spec/mod.rs: the name and wildcard selectors. *)
(***************************************************************************)
Name(n) == [k |-> "name", name |-> n]
Wildcard == [k |-> "wildcard"]
FilterSel(e) == [k |-> "filter", expr |-> e]

\* a name selector that takes a member holding null for a missing one
NameQuery_NullAsMissing(T, s, current) ==
    IF as_object(T, current) = None THEN <<>>
    ELSE LET v == ObjectGet(T, current, s.name)
         IN  IF v = None \/ T[v[1]].t = "null" THEN <<>> ELSE <<v[1]>>

NameQuery(T, s, current) ==
    IF as_object(T, current) = None THEN <<>>
    ELSE LET v == ObjectGet(T, current, s.name)
         IN  IF v = None THEN <<>> ELSE <<v[1]>>

NameQueryLocated(T, s, current, parent) ==
    IF as_object(T, current) = None THEN <<>>
    ELSE LET v == ObjectGet(T, current, s.name)
         IN  IF v = None THEN <<>>
             ELSE <<LocatedNode(Append(parent, PathName(s.name)), v[1])>>

\* select_wildcard: all elements of an array, all member values of an object
select_wildcard(T, current) ==
    IF as_array(T, current) # None THEN T[current].kids
    ELSE IF as_object(T, current) # None THEN T[current].kids
    ELSE <<>>

\* an enumeration that counts the elements from one
ChildElem_OneBased(T, current, j) ==
    IF T[current].t = "arr" THEN PathIndex(j) ELSE PathName(T[current].keys[j])

\* the path element of the j-th child of a container: (i, v) of
\* list.iter().enumerate(), (k, v) of obj.iter()
ChildElem(T, current, j) ==
    IF T[current].t = "arr" THEN PathIndex(j - 1) ELSE PathName(T[current].keys[j])

\* the Wildcard arms of Selector::query_located and Segment::query_located
WildcardQueryLocated(T, current, parent) ==
    IF as_array(T, current) # None \/ as_object(T, current) # None
    THEN [j \in 1..Len(T[current].kids) |->
            LocatedNode(clone_and_push(parent, ChildElem(T, current, j)),
                        T[current].kids[j])]
    ELSE <<>>

(***************************************************************************)
(* spec/selector/filter.rs: filter expressions.  A test is "true",         *)
(* "false" or "panic"; a panic of the evaluation is carried in a node list *)
(* as the node PANIC.                                                      *)
(***************************************************************************)
PANIC == 0

Panicked(list) == PANIC \in Range(list)

LogicalOrExpr(ands) == [k |-> "or", exprs |-> ands]
LogicalAndExpr(basics) == [k |-> "and", exprs |-> basics]
Paren(e) == [k |-> "Paren", e |-> e]
ParenNot(e) == [k |-> "ParenNot", e |-> e]
Relation(l, op, r) == [k |-> "Relation", left |-> l, op |-> op, right |-> r]
Exist(q) == [k |-> "Exist", q |-> q]
NotExist(q) == [k |-> "NotExist", q |-> q]

Literal(ty, v) == [k |-> "Literal", t |-> ty, val |-> v]
SingularQuery(kind, segs) == [k |-> "SingularQuery", kind |-> kind, segments |-> segs]

ComparisonOperators ==
    {"EqualTo", "NotEqualTo", "LessThan", "GreaterThan",
     "LessThanEqualTo", "GreaterThanEqualTo"}

Nothing == [k |-> "Nothing"]
SPathNode(T, n) == [k |-> "Node", t |-> T[n].t, val |-> T[n].val, ref |-> n]
SPathValueOf(lit) == [k |-> "Value", t |-> lit.t, val |-> lit.val]

Not3(o) == IF o = "panic" THEN "panic" ELSE IF o = "true" THEN "false" ELSE "true"
Bool3(b) == IF b THEN "true" ELSE "false"

IsComparable(v) == v.k \in {"Node", "Value"}

\* SingularQuery::eval_query: Option<node>
RECURSIVE EvalSingularSegments(_, _, _)
EvalSingularSegments(T, segs, target) ==
    IF segs = <<>> THEN Some(target)
    ELSE LET seg == Head(segs)
             t == IF seg.k = "name"
                  THEN (IF as_object(T, target) = None THEN None
                        ELSE ObjectGet(T, target, seg.name))
                  ELSE (IF as_array(T, target) = None THEN None
                        ELSE IF seg.index < 0 THEN None
                        ELSE ArrayGet(T[target].kids, seg.index))
         IN  IF t = None THEN None ELSE EvalSingularSegments(T, Tail(segs), t[1])

eval_query(T, sq, current, root) ==
    EvalSingularSegments(T, sq.segments,
                         IF sq.kind = "Absolute" THEN root ELSE current)

\* Comparable::as_value
as_value(T, c, current, root) ==
    IF c.k = "Literal" THEN SPathValueOf(c)
    ELSE LET v == eval_query(T, c, current, root)
         IN  IF v = None THEN Nothing ELSE SPathNode(T, v[1])

\* value_equal_to is todo!(): evaluating it panics
value_equal_to(left, right) == "panic"

check_equal_to(left, right) ==
    IF IsComparable(left) /\ IsComparable(right) THEN value_equal_to(left, right)
    ELSE IF left.k = "Nothing" /\ right.k = "Nothing" THEN "true"
    ELSE "false"

\* as_f64 is Some for every number, so the first arm decides
number_less_than(n1, n2) == n1 < n2

value_less_than(left, right) ==
    IF left.t = "num" /\ right.t = "num" THEN number_less_than(left.val, right.val)
    ELSE IF left.t = "str" /\ right.t = "str" THEN left.val < right.val
    ELSE FALSE

check_less_than(left, right) ==
    IF IsComparable(left) /\ IsComparable(right) THEN value_less_than(left, right)
    ELSE FALSE

value_same_type(left, right) == left.t = right.t

check_same_type(left, right) ==
    IF IsComparable(left) /\ IsComparable(right) THEN value_same_type(left, right)
    ELSE FALSE

\* the match of ComparisonExpr::test_filter on evaluated operands, with the
\* short-circuit order of && and ||
CompareValues(op, left, right) ==
    CASE op = "EqualTo" -> check_equal_to(left, right)
      [] op = "NotEqualTo" -> Not3(check_equal_to(left, right))
      [] op = "LessThan" ->
            Bool3(check_same_type(left, right) /\ check_less_than(left, right))
      [] op = "GreaterThan" ->
            IF ~check_same_type(left, right) THEN "false"
            ELSE IF check_less_than(left, right) THEN "false"
            ELSE Not3(check_equal_to(left, right))
      [] op = "LessThanEqualTo" ->
            IF ~check_same_type(left, right) THEN "false"
            ELSE IF check_less_than(left, right) THEN "true"
            ELSE check_equal_to(left, right)
      [] op = "GreaterThanEqualTo" ->
            Bool3(check_same_type(left, right) /\ ~check_less_than(left, right))

ComparisonTestFilter(T, e, current, root) ==
    CompareValues(e.op, as_value(T, e.left, current, root),
                  as_value(T, e.right, current, root))

(***************************************************************************)
(* spec/query.rs, spec/segment.rs, spec/selector/mod.rs: queries,          *)
(* segments and selectors; Queryable::query and Queryable::query_located.  *)
(***************************************************************************)
Query(kind, segs) == [kind |-> kind, segments |-> segs]
QuerySegment(kind, seg) == [kind |-> kind, segment |-> seg]
LongHand(sels) == [k |-> "LongHand", selectors |-> sels]
DotName(n) == [k |-> "DotName", name |-> n]
WildcardSegment == [k |-> "Wildcard"]

RECURSIVE QueryQuery(_, _, _, _)
RECURSIVE QueryQueryLocated(_, _, _, _, _)
RECURSIVE QuerySegmentQuery(_, _, _, _)
RECURSIVE QuerySegmentQueryLocated(_, _, _, _, _)
RECURSIVE descend(_, _, _, _)
RECURSIVE descend_paths(_, _, _, _, _)
RECURSIVE LogicalOrTestFilter(_, _, _, _)

\* an existence test that asks for a selected node that is not null
ExistTestFilter_NotNull(T, q, current, root) ==
    LET is_empty(r) ==
            IF Panicked(r) THEN "panic"
            ELSE Bool3(\E j \in 1..Len(r) : T[r[j]].t # "null")
    IN  is_empty(QueryQuery(T, q, current, root))

\* ExistExpr::test_filter
ExistTestFilter(T, q, current, root) ==
    LET is_empty(r) == IF Panicked(r) THEN "panic" ELSE Bool3(r # <<>>)
    IN  is_empty(QueryQuery(T, q, current, root))

\* BasicExpr::test_filter
BasicTestFilter(T, e, current, root) ==
    CASE e.k = "Paren" -> LogicalOrTestFilter(T, e.e, current, root)
      [] e.k = "ParenNot" -> Not3(LogicalOrTestFilter(T, e.e, current, root))
      [] e.k = "Relation" -> ComparisonTestFilter(T, e, current, root)
      [] e.k = "Exist" -> ExistTestFilter(T, e.q, current, root)
      [] e.k = "NotExist" -> Not3(ExistTestFilter(T, e.q, current, root))

\* LogicalAndExpr::test_filter: iter().all(..), left to right
RECURSIVE AllTestFilter(_, _, _, _)
AllTestFilter(T, basics, current, root) ==
    IF basics = <<>> THEN "true"
    ELSE LET all(o) ==
                 IF o = "true" THEN AllTestFilter(T, Tail(basics), current, root)
                 ELSE o
         IN  all(BasicTestFilter(T, Head(basics), current, root))

\* LogicalOrExpr::test_filter: iter().any(..), left to right
RECURSIVE AnyTestFilter(_, _, _, _)
AnyTestFilter(T, ands, current, root) ==
    IF ands = <<>> THEN "false"
    ELSE LET any(o) ==
                 IF o = "false" THEN AnyTestFilter(T, Tail(ands), current, root)
                 ELSE o
         IN  any(AllTestFilter(T, Head(ands).exprs, current, root))

LogicalOrTestFilter(T, e, current, root) == AnyTestFilter(T, e.exprs, current, root)

\* the children of an array or object that pass the filter, as positions
FilterPositions(T, f, current, root) ==
    LET kids == T[current].kids
        positions(tests) ==
            IF \E j \in 1..Len(kids) : tests[j] = "panic" THEN None
            ELSE Some({j \in 1..Len(kids) : tests[j] = "true"})
    IN  positions([j \in 1..Len(kids) |->
                      LogicalOrTestFilter(T, f.expr, kids[j], root)])

RECURSIVE PickPositions(_, _, _)
PickPositions(list, keep, j) ==
    IF j > Len(list) THEN <<>>
    ELSE (IF j \in keep THEN <<list[j]>> ELSE <<>>) \o PickPositions(list, keep, j + 1)

\* Filter::query
FilterQuery(T, f, current, root) ==
    IF as_array(T, current) # None \/ as_object(T, current) # None
    THEN LET pick(keep) ==
                 IF keep = None THEN <<PANIC>>
                 ELSE PickPositions(T[current].kids, keep[1], 1)
         IN  pick(FilterPositions(T, f, current, root))
    ELSE <<>>

\* Filter::query_located
FilterQueryLocated(T, f, current, root, parent) ==
    IF as_array(T, current) # None \/ as_object(T, current) # None
    THEN LET all == [j \in 1..Len(T[current].kids) |->
                        LocatedNode(clone_and_push(parent, ChildElem(T, current, j)),
                                    T[current].kids[j])]
             pick(keep) ==
                 IF keep = None THEN <<LocatedNode(parent, PANIC)>>
                 ELSE PickPositions(all, keep[1], 1)
         IN  pick(FilterPositions(T, f, current, root))
    ELSE <<>>

\* a test that takes the wildcard for a singular selector
SelectorIsSingular_WithWildcard(s) == s.k \in {"name", "index", "wildcard"}

\* Selector::is_singular
SelectorIsSingular(s) == s.k \in {"name", "index"}

\* Selector::query
SelectorQuery(T, s, current, root) ==
    CASE s.k = "name" -> NameQuery(T, s, current)
      [] s.k = "wildcard" -> select_wildcard(T, current)
      [] s.k = "index" -> IndexQuery(T, s, current)
      [] s.k = "slice" -> SliceQuery(T, s, current)
      [] s.k = "filter" -> FilterQuery(T, s, current, root)

\* Selector::query_located
SelectorQueryLocated(T, s, current, root, parent) ==
    CASE s.k = "name" -> NameQueryLocated(T, s, current, parent)
      [] s.k = "wildcard" -> WildcardQueryLocated(T, current, parent)
      [] s.k = "index" -> IndexQueryLocated(T, s, current, parent)
      [] s.k = "slice" -> SliceQueryLocated(T, s, current, parent)
      [] s.k = "filter" -> FilterQueryLocated(T, s, current, root, parent)

\* Segment::is_singular
SegmentIsSingular(seg) ==
    CASE seg.k = "LongHand" ->
            IF Len(seg.selectors) > 1 THEN FALSE
            ELSE IF seg.selectors # <<>> THEN SelectorIsSingular(seg.selectors[1])
            ELSE TRUE
      [] seg.k = "DotName" -> TRUE
      [] seg.k = "Wildcard" -> FALSE

\* a segment that applies its selectors last to first
SegmentQuery_LastFirst(T, seg, current, root) ==
    CASE seg.k = "LongHand" ->
            Flatten([j \in 1..Len(seg.selectors) |->
                        SelectorQuery(T, seg.selectors[Len(seg.selectors) + 1 - j],
                                      current, root)])
      [] seg.k = "DotName" ->
            IF as_object(T, current) = None THEN <<>>
            ELSE LET v == ObjectGet(T, current, seg.name)
                 IN  IF v = None THEN <<>> ELSE <<v[1]>>
      [] seg.k = "Wildcard" -> select_wildcard(T, current)

\* Segment::query
SegmentQuery(T, seg, current, root) ==
    CASE seg.k = "LongHand" ->
            Flatten([j \in 1..Len(seg.selectors) |->
                        SelectorQuery(T, seg.selectors[j], current, root)])
      [] seg.k = "DotName" ->
            IF as_object(T, current) = None THEN <<>>
            ELSE LET v == ObjectGet(T, current, seg.name)
                 IN  IF v = None THEN <<>> ELSE <<v[1]>>
      [] seg.k = "Wildcard" -> select_wildcard(T, current)

\* Segment::query_located
SegmentQueryLocated(T, seg, current, root, parent) ==
    CASE seg.k = "LongHand" ->
            Flatten([j \in 1..Len(seg.selectors) |->
                        SelectorQueryLocated(T, seg.selectors[j], current, root, parent)])
      [] seg.k = "DotName" ->
            IF as_object(T, current) = None THEN <<>>
            ELSE LET v == ObjectGet(T, current, seg.name)
                 IN  IF v = None THEN <<>>
                     ELSE <<LocatedNode(Append(parent, PathName(seg.name)), v[1])>>
      [] seg.k = "Wildcard" -> WildcardQueryLocated(T, current, parent)

\* a descendant segment that visits the children before the node itself
QuerySegmentQuery_PostOrder(T, qs, current, root) ==
    IF current = PANIC THEN <<PANIC>>
    ELSE (IF qs.kind = "Descendant" THEN descend(T, qs, current, root) ELSE <<>>)
         \o SegmentQuery(T, qs.segment, current, root)

\* QuerySegment::query; a panic met earlier stays a panic
QuerySegmentQuery(T, qs, current, root) ==
    IF current = PANIC THEN <<PANIC>>
    ELSE SegmentQuery(T, qs.segment, current, root)
         \o (IF qs.kind = "Descendant" THEN descend(T, qs, current, root) ELSE <<>>)

\* a descent that forgets the object branch
descend_arrays_only(T, qs, current, root) ==
    IF as_array(T, current) # None
    THEN Flatten([j \in 1..Len(T[current].kids) |->
                    QuerySegmentQuery(T, qs, T[current].kids[j], root)])
    ELSE <<>>

descend(T, qs, current, root) ==
    IF as_array(T, current) # None \/ as_object(T, current) # None
    THEN Flatten([j \in 1..Len(T[current].kids) |->
                    QuerySegmentQuery(T, qs, T[current].kids[j], root)])
    ELSE <<>>

\* QuerySegment::query_located
QuerySegmentQueryLocated(T, qs, current, root, parent) ==
    IF current = PANIC THEN <<LocatedNode(parent, PANIC)>>
    ELSE IF qs.kind = "Descendant"
    THEN SegmentQueryLocated(T, qs.segment, current, root, parent)
         \o descend_paths(T, qs, current, root, parent)
    ELSE SegmentQueryLocated(T, qs.segment, current, root, parent)

\* a located descent that forgets the object branch
descend_paths_arrays_only(T, qs, current, root, parent) ==
    IF as_array(T, current) # None
    THEN Flatten([j \in 1..Len(T[current].kids) |->
                    QuerySegmentQueryLocated(T, qs, T[current].kids[j], root,
                        clone_and_push(parent, ChildElem(T, current, j)))])
    ELSE <<>>

descend_paths(T, qs, current, root, parent) ==
    IF as_array(T, current) # None \/ as_object(T, current) # None
    THEN Flatten([j \in 1..Len(T[current].kids) |->
                    QuerySegmentQueryLocated(T, qs, T[current].kids[j], root,
                        clone_and_push(parent, ChildElem(T, current, j)))])
    ELSE <<>>

\* Query::is_singular
QueryIsSingular(q) ==
    \A j \in 1..Len(q.segments) :
        q.segments[j].kind = "Child" /\ SegmentIsSingular(q.segments[j].segment)

\* the loop `for segment in &self.segments` of Query::query
RECURSIVE QueryFold(_, _, _, _)
QueryFold(T, segs, result, root) ==
    IF segs = <<>> THEN result
    ELSE QueryFold(T, Tail(segs),
                   Flatten([j \in 1..Len(result) |->
                               QuerySegmentQuery(T, Head(segs), result[j], root)]),
                   root)

QueryQuery(T, q, current, root) ==
    QueryFold(T, q.segments, IF q.kind = "Root" THEN <<root>> ELSE <<current>>, root)

\* the loop `for s in &self.segments` of Query::query_located
RECURSIVE QueryLocatedFold(_, _, _, _)
QueryLocatedFold(T, segs, result, root) ==
    IF segs = <<>> THEN result
    ELSE QueryLocatedFold(T, Tail(segs),
                          Flatten([j \in 1..Len(result) |->
                                      QuerySegmentQueryLocated(T, Head(segs),
                                          result[j].node, root, result[j].loc)]),
                          root)

QueryQueryLocated(T, q, current, root, parent) ==
    QueryLocatedFold(T, q.segments,
                     IF q.kind = "Current" THEN <<LocatedNode(parent, current)>>
                     ELSE <<LocatedNode(<<>>, root)>>,
                     root)

(***************************************************************************)
(* Specification SpecSlice: one slice or index selector applied to a flat  *)
(* array, to an object or to a primitive; query, then query_located.       *)
(***************************************************************************)
NumberLeaf(v) == Leaf("num", v)

\* the array [0, 1, 0, ...] of n numbers: node 1 is the array
FlatArray(n) ==
    [i \in 1..(n + 1) |->
        IF i = 1 THEN [t |-> "arr", val |-> 0, kids |-> [j \in 1..n |-> j + 1], keys |-> <<>>]
        ELSE NumberLeaf(i % 2)]

\* the object {"a": 1}
SmallObject ==
    <<[t |-> "obj", val |-> 0, kids |-> <<2>>, keys |-> <<"a">>], NumberLeaf(1)>>

FlatValues == {FlatArray(n) : n \in 0..MaxLen} \cup {SmallObject, <<NumberLeaf(1)>>}

\* Option<Integer>: absent, near the array's ends, or an end of the safe range
SliceParams ==
    {None} \cup {Some(i) : i \in (0 - MaxLen - 2)..(MaxLen + 2)} \cup {Some(MIN), Some(MAX)}

\* i64: near the array's ends, or outside the safe range
IndexParams == ((0 - MaxLen - 2)..(MaxLen + 2)) \cup {0 - 2 * MAX, 2 * MAX}

SliceSelectors == {Slice(a, b, c) : a \in SliceParams, b \in SliceParams, c \in SliceParams}
IndexSelectors == {Index(i) : i \in IndexParams}

NoOutcome == [op \in ComparisonOperators |-> "none"]

InitSlice ==
    /\ overflow_checks = TRUE
    /\ tree \in FlatValues
    /\ cur = 1
    /\ query \in SliceSelectors \cup IndexSelectors
    /\ nodes = <<>>
    /\ located = <<>>
    /\ outcome = NoOutcome
    /\ text = <<>>
    /\ parsed = <<>>
    /\ pc = "start"

SelectorQueryStep ==
    /\ pc = "start"
    /\ nodes' = SelectorQuery(tree, query, cur, 1)
    /\ pc' = "queried"
    /\ UNCHANGED <<overflow_checks, tree, cur, query, located, outcome, text, parsed>>

SelectorQueryLocatedStep ==
    /\ pc = "queried"
    /\ located' = SelectorQueryLocated(tree, query, cur, 1, <<>>)
    /\ pc' = "done"
    /\ UNCHANGED <<overflow_checks, tree, cur, query, nodes, outcome, text, parsed>>

NextSlice == SelectorQueryStep \/ SelectorQueryLocatedStep

SpecSlice == InitSlice /\ [][NextSlice]_vars

(***************************************************************************)
(* RFC 9535 section 2.3.4.2.2, in plain integer arithmetic.                *)
(***************************************************************************)
RfcNormalize(i, len) == IF i >= 0 THEN i ELSE len + i

\* (lower, upper)
RfcBounds(start, end, step, len) ==
    LET n_start == RfcNormalize(start, len)
        n_end == RfcNormalize(end, len)
    IN  IF step >= 0
        THEN <<Min2(Max2(n_start, 0), len), Min2(Max2(n_end, 0), len)>>
        ELSE <<Min2(Max2(n_end, -1), len - 1), Min2(Max2(n_start, -1), len - 1)>>

\* the indices the reference visits, in order
RECURSIVE RfcUp(_, _, _)
RfcUp(i, upper, step) == IF i < upper THEN <<i>> \o RfcUp(i + step, upper, step) ELSE <<>>

RECURSIVE RfcDown(_, _, _)
RfcDown(i, lower, step) == IF i > lower THEN <<i>> \o RfcDown(i + step, lower, step) ELSE <<>>

RfcSliceIndices(s, len) ==
    LET step == IF s.step = None THEN 1 ELSE s.step[1]
        start == IF s.start # None THEN s.start[1] ELSE IF step >= 0 THEN 0 ELSE len - 1
        end == IF s.end # None THEN s.end[1] ELSE IF step >= 0 THEN len ELSE 0 - len - 1
        b == RfcBounds(start, end, step, len)
    IN  IF step = 0 THEN <<>>
        ELSE IF step > 0 THEN RfcUp(b[1], b[2], step)
        ELSE RfcDown(b[2], b[1], step)

RfcSlice(T, s) ==
    IF T[1].t # "arr" THEN <<>>
    ELSE LET idx == RfcSliceIndices(s, Len(T[1].kids))
         IN  [j \in 1..Len(idx) |-> T[1].kids[idx[j] + 1]]

\* C1: on an array, Slice::query returns, in order, exactly the elements at
\* the indices of the RFC 9535 reference (defaults, normalisation, clamping,
\* iteration by step, empty for step 0); on a non-array it returns nothing.
C1_SliceIsRfcReference ==
    (pc # "start" /\ query.k = "slice") => nodes = RfcSlice(tree, query)

\* a reverse slice with a negative bound that selected two or more elements
C1_Witness ==
    /\ pc = "queried"
    /\ query.k = "slice"
    /\ query.step # None /\ query.step[1] < -1
    /\ query.start # None /\ query.start[1] < 0
    /\ Len(nodes) >= 2

\* C2: the index selector yields [arr[i]] when 0 <= i < L, [arr[L+i]] when
\* -L <= i < 0, and nothing otherwise; on a non-array it yields nothing.
C2_IndexSelects ==
    (pc # "start" /\ query.k = "index") =>
        LET i == query.index
            arr == tree[1].kids
            L == Len(arr)
        IN  nodes = IF tree[1].t # "arr" THEN <<>>
                    ELSE IF 0 <= i /\ i < L THEN <<arr[i + 1]>>
                    ELSE IF 0 - L <= i /\ i < 0 THEN <<arr[L + i + 1]>>
                    ELSE <<>>

\* a negative index that selected an element other than the first
C2_Witness ==
    /\ pc = "queried"
    /\ query.k = "index"
    /\ query.index < 0
    /\ Len(nodes) = 1 /\ nodes[1] > 2

(***************************************************************************)
(* Specification SpecQuery: a root query of one or two segments applied to *)
(* a value tree; Query::query and Query::query_located, each call either   *)
(* returning its list or panicking.                                        *)
(***************************************************************************)
\* the member names of the objects, in the map's iteration order
KeyNames == <<"a", "j", "k", "o">>

NodeKinds == {"arr", "obj", "one", "two"}

\* the children of node i under the parent vector P, in order
RECURSIVE KidsFrom(_, _, _, _)
KidsFrom(P, i, c, n) ==
    IF c > n THEN <<>>
    ELSE (IF P[c] = i THEN <<c>> ELSE <<>>) \o KidsFrom(P, i, c + 1, n)

\* the value with n nodes, parent vector P and node kinds ty
MakeTree(n, P, ty) ==
    [i \in 1..n |->
        LET kids == KidsFrom(P, i, i + 1, n)
        IN  CASE ty[i] = "arr" -> [t |-> "arr", val |-> 0, kids |-> kids, keys |-> <<>>]
              [] ty[i] = "obj" -> [t |-> "obj", val |-> 0, kids |-> kids,
                                   keys |-> [j \in 1..Len(kids) |-> KeyNames[j + ((i + 1) % 2)]]]
              [] ty[i] = "one" -> NumberLeaf(1)
              [] ty[i] = "two" -> NumberLeaf(2)]

TreesOfSize(n) ==
    {MakeTree(n, P, ty) :
        <<P, ty>> \in {pt \in [1..n -> 0..(n - 1)] \X [1..n -> NodeKinds] :
                        \A i \in 1..n : /\ pt[1][i] < i
                                        /\ (i > 1 => pt[1][i] >= 1)
                                        /\ (i > 1 => pt[2][pt[1][i]] \in {"arr", "obj"})}}

Arr(kids) == [t |-> "arr", val |-> 0, kids |-> kids, keys |-> <<>>]
Obj(keys, kids) == [t |-> "obj", val |-> 0, kids |-> kids, keys |-> keys]

\* {"a": [5, 3, [{"j": 4}, {"k": 6}]], "o": {"j": 1, "k": 2}}
ExampleTree ==
    << Obj(<<"a", "o">>, <<2, 10>>),
       Arr(<<3, 4, 5>>), NumberLeaf(5), NumberLeaf(3), Arr(<<6, 8>>),
       Obj(<<"j">>, <<7>>), NumberLeaf(4), Obj(<<"k">>, <<9>>), NumberLeaf(6),
       Obj(<<"j", "k">>, <<11, 12>>), NumberLeaf(1), NumberLeaf(2) >>

Trees == UNION {TreesOfSize(n) : n \in 1..MaxNodes} \cup {ExampleTree}

CurrentChild(name) == Query("Current", <<QuerySegment("Child", DotName(name))>>)
CurrentNode == SingularQuery("Relative", <<>>)
OneTest(basic) == LogicalOrExpr(<<LogicalAndExpr(<<basic>>)>>)

\* ?@.a   ?@<2   ?@==1   ?!@.j
FilterExists == FilterSel(OneTest(Exist(CurrentChild("a"))))
FilterLess == FilterSel(OneTest(Relation(CurrentNode, "LessThan", Literal("num", 2))))
FilterEqual == FilterSel(OneTest(Relation(CurrentNode, "EqualTo", Literal("num", 1))))
FilterNotExists == FilterSel(OneTest(NotExist(CurrentChild("j"))))

SecondSegments ==
    { DotName("j"), WildcardSegment,
      LongHand(<<Index(-1)>>),
      LongHand(<<Name("a"), Index(0)>>) }

FirstSegments ==
    SecondSegments \cup
    { DotName("a"),
      LongHand(<<Name("j")>>),
      LongHand(<<Index(0)>>),
      LongHand(<<Slice(Some(1), None, None)>>),
      LongHand(<<Slice(None, None, Some(-1))>>),
      LongHand(<<Wildcard>>),
      LongHand(<<Index(0), Wildcard>>),
      LongHand(<<FilterExists>>),
      LongHand(<<FilterLess>>),
      LongHand(<<FilterEqual>>),
      LongHand(<<FilterNotExists, Index(1)>>) }

SegmentKinds == {"Child", "Descendant"}

Queries ==
    {Query("Root", <<QuerySegment(k1, s1)>>) : k1 \in SegmentKinds, s1 \in FirstSegments}
    \cup
    {Query("Root", <<QuerySegment(k1, s1), QuerySegment(k2, s2)>>) :
        k1 \in SegmentKinds, s1 \in FirstSegments, k2 \in SegmentKinds, s2 \in SecondSegments}

\* a panic unwinds the call: no list is returned
Caught(list) == IF Panicked(list) THEN <<PANIC>> ELSE list
CaughtLocated(list) ==
    IF \E j \in 1..Len(list) : list[j].node = PANIC
    THEN <<LocatedNode(<<>>, PANIC)>> ELSE list

InitQuery ==
    /\ overflow_checks = TRUE
    /\ tree \in Trees
    /\ cur = 1
    /\ query \in Queries
    /\ nodes = <<>>
    /\ located = <<>>
    /\ outcome = NoOutcome
    /\ text = <<>>
    /\ parsed = <<>>
    /\ pc = "start"

QueryStep ==
    /\ pc = "start"
    /\ nodes' = Caught(QueryQuery(tree, query, cur, 1))
    /\ pc' = "queried"
    /\ UNCHANGED <<overflow_checks, tree, cur, query, located, outcome, text, parsed>>

QueryLocatedStep ==
    /\ pc = "queried"
    /\ located' = CaughtLocated(QueryQueryLocated(tree, query, cur, 1, <<>>))
    /\ pc' = "done"
    /\ UNCHANGED <<overflow_checks, tree, cur, query, nodes, outcome, text, parsed>>

NextQuery == QueryStep \/ QueryLocatedStep

SpecQuery == InitQuery /\ [][NextQuery]_vars

(***************************************************************************)
(* References for the descendant segment and for normalized paths, written *)
(* over the value tree alone.                                              *)
(***************************************************************************)
\* the node and everything below it, parents first, children in order
RECURSIVE PreOrder(_, _)
PreOrder(T, v) ==
    <<v>> \o Flatten([j \in 1..Len(T[v].kids) |-> PreOrder(T, T[v].kids[j])])

\* the set of values reachable from the nodes of S through elements and members
RECURSIVE Reachable(_, _)
Reachable(T, S) ==
    LET S2 == S \cup UNION {Range(T[v].kids) : v \in S}
    IN  IF S2 = S THEN S ELSE Reachable(T, S2)

RECURSIVE BagSum(_, _)
BagSum(S, f) ==
    IF S = {} THEN EmptyBag
    ELSE LET v == CHOOSE x \in S : TRUE IN f[v] (+) BagSum(S \ {v}, f)

LastSegment(q) == q.segments[Len(q.segments)]
PrefixQuery(q) == Query(q.kind, SubSeq(q.segments, 1, Len(q.segments) - 1))

\* the segment of a descendant query segment applied, as a child segment, to
\* each node of a list in turn
ApplyToEach(T, seg, list) ==
    Flatten([j \in 1..Len(list) |-> SegmentQuery(T, seg, list[j], 1)])

\* C3: a descendant segment evaluated at a node v returns a pre-order list:
\* what the segment selects at v, then for each child of v in order the
\* complete descendant result at that child.
C3_DescendantIsPreOrder ==
    (pc # "start" /\ LastSegment(query).kind = "Descendant"
        /\ ~Panicked(QueryQuery(tree, PrefixQuery(query), 1, 1))) =>
        LET at == QueryQuery(tree, PrefixQuery(query), 1, 1)
            visited == Flatten([j \in 1..Len(at) |-> PreOrder(tree, at[j])])
        IN  nodes = Caught(ApplyToEach(tree, LastSegment(query).segment, visited))

\* `$..*` on the example value returned its eleven nodes, parents first
C3_Witness ==
    /\ pc = "queried"
    /\ tree = ExampleTree
    /\ query = Query("Root", <<QuerySegment("Descendant", WildcardSegment)>>)
    /\ nodes = <<2, 10, 3, 4, 5, 6, 8, 7, 9, 11, 12>>

\* C4: the multiset of nodes `$..X` returns is the multiset union, over the
\* root and every value reachable from it, of what X selects there as a
\* child segment: no reachable value is skipped, none is visited twice.
C4_DescendantIsUnionOverReachable ==
    (pc # "start" /\ Len(query.segments) = 1 /\ query.segments[1].kind = "Descendant") =>
        LET X == query.segments[1].segment
            R == Reachable(tree, {1})
            sel == [v \in R |-> SeqToBag(SegmentQuery(tree, X, v, 1))]
        IN  IF \E v \in R : Panicked(SegmentQuery(tree, X, v, 1))
            THEN nodes = <<PANIC>>
            ELSE SeqToBag(nodes) = BagSum(R, sel)

\* `$..[0, *]` returned some node twice, from a value below the root
C4_Witness ==
    /\ pc = "queried"
    /\ query = Query("Root", <<QuerySegment("Descendant", LongHand(<<Index(0), Wildcard>>))>>)
    /\ \E i, j \in 1..Len(nodes) : i < j /\ nodes[i] = nodes[j] /\ nodes[i] > 2
    /\ Len(nodes) >= 3

LocatedNodes(list) == [j \in 1..Len(list) |-> list[j].node]

\* C5: the multiset of nodes of the result of query_located equals the
\* multiset of nodes of the result of query (and one call panics exactly
\* when the other does).
C5_LocatedEqualsUnlocated ==
    pc = "done" => SeqToBag(LocatedNodes(located)) = SeqToBag(nodes)

\* a two-segment query with a descendant segment returned several nodes
C5_Witness ==
    /\ pc = "done"
    /\ Len(query.segments) = 2
    /\ query.segments[2].kind = "Descendant"
    /\ Len(nodes) >= 3 /\ Len(located) >= 3

\* walking a normalized path from the root: Option<node>
RECURSIVE Walk(_, _, _)
Walk(T, path, v) ==
    IF path = <<>> THEN Some(v)
    ELSE LET e == Head(path)
             next == IF e.k = "Name"
                     THEN (IF T[v].t = "obj" THEN ObjectGet(T, v, e.name) ELSE None)
                     ELSE (IF T[v].t = "arr" /\ e.index >= 0
                           THEN ArrayGet(T[v].kids, e.index) ELSE None)
         IN  IF next = None THEN None ELSE Walk(T, Tail(path), next[1])

\* the number of descent steps from the root to node v
RECURSIVE Depth(_, _)
Depth(T, v) ==
    IF v = 1 THEN 0
    ELSE 1 + Depth(T, CHOOSE p \in DOMAIN T : v \in Range(T[p].kids))

\* the normalized path as a singular query: $['name'][index]...
PathAsQuery(path) ==
    Query("Root", [j \in 1..Len(path) |->
                    QuerySegment("Child",
                        LongHand(<<IF path[j].k = "Name" THEN Name(path[j].name)
                                   ELSE Index(path[j].index)>>))])

\* C6: every (path, node) pair query_located returns is valid: walking the
\* path from the root arrives at the paired node, the path has one element
\* per descent step, and the path re-evaluated as a singular query returns
\* that node.
C6_NormalizedPathsAreValid ==
    (pc = "done" /\ located # <<LocatedNode(<<>>, PANIC)>>) =>
        \A j \in 1..Len(located) :
            /\ Walk(tree, located[j].loc, 1) = Some(located[j].node)
            /\ Len(located[j].loc) = Depth(tree, located[j].node)
            /\ QueryIsSingular(PathAsQuery(located[j].loc))
            /\ QueryQuery(tree, PathAsQuery(located[j].loc), 1, 1) = <<located[j].node>>

\* a returned path that steps through an array index above 0 and a member name
C6_Witness ==
    /\ pc = "done"
    /\ \E j \in 1..Len(located) :
          /\ located[j].node # PANIC
          /\ \E a, b \in 1..Len(located[j].loc) :
                /\ located[j].loc[a].k = "Name"
                /\ located[j].loc[b].k = "Index" /\ located[j].loc[b].index > 0

\* C7: a syntactically singular query returns at most one node.
C7_SingularQueryAtMostOne ==
    (pc # "start" /\ QueryIsSingular(query)) => (~Panicked(nodes) /\ Len(nodes) <= 1)

\* a singular query of two segments found its node
C7_Witness ==
    /\ pc = "queried"
    /\ QueryIsSingular(query)
    /\ Len(query.segments) = 2
    /\ Len(nodes) = 1 /\ nodes[1] # PANIC

(***************************************************************************)
(* Specification SpecCmp: the six comparison operators of a filter, each   *)
(* tested on the same pair of comparables at the same current node.        *)
(* Numbers are held doubled, so that 3.5 is the integer 7.                 *)
(***************************************************************************)
StringLeaf(rank) == Leaf("str", rank)

\* {"a": [3, 5, {"b": "j"}, []], "e": "f"}; the strings "f" < "j" are 1 < 2
CmpTree ==
    << Obj(<<"a", "e">>, <<2, 8>>),
       Arr(<<3, 4, 5, 7>>), NumberLeaf(6), NumberLeaf(10),
       Obj(<<"b">>, <<6>>), StringLeaf(2), Arr(<<>>),
       StringLeaf(1) >>

\* 3.5   5   'j'   null   @   @.b   @[0]   $.e   $.a[1]
Comparables ==
    { Literal("num", 7), Literal("num", 10), Literal("str", 2), Literal("null", 0),
      SingularQuery("Relative", <<>>),
      SingularQuery("Relative", <<Name("b")>>),
      SingularQuery("Relative", <<Index(0)>>),
      SingularQuery("Absolute", <<Name("e")>>),
      SingularQuery("Absolute", <<Name("a"), Index(1)>>) }

InitCmp ==
    /\ overflow_checks = TRUE
    /\ tree = CmpTree
    /\ cur \in Range(CmpTree[2].kids)
    /\ query \in [left : Comparables, right : Comparables]
    /\ nodes = <<>>
    /\ located = <<>>
    /\ outcome = NoOutcome
    /\ text = <<>>
    /\ parsed = <<>>
    /\ pc = "start"

\* ComparisonExpr::test_filter for the expression `left op right`
TestFilterStep ==
    /\ \E op \in ComparisonOperators :
          /\ outcome[op] = "none"
          /\ outcome' = [outcome EXCEPT ![op] =
                ComparisonTestFilter(tree, Relation(query.left, op, query.right), cur, 1)]
    /\ pc' = IF \A op \in ComparisonOperators : outcome'[op] # "none" THEN "done" ELSE "testing"
    /\ UNCHANGED <<overflow_checks, tree, cur, query, nodes, located, text, parsed>>

NextCmp == TestFilterStep

SpecCmp == InitCmp /\ [][NextCmp]_vars

LeftValue == as_value(tree, query.left, cur, 1)
RightValue == as_value(tree, query.right, cur, 1)
OrderingOperators == {"LessThan", "LessThanEqualTo", "GreaterThan", "GreaterThanEqualTo"}

\* C9: for a comparable c that evaluates to a value, `c == c` tests true and
\* `c < c` tests false; for operands whose values are of different types
\* every ordering comparison tests false; `@ > 3.5` tests true exactly on the
\* numbers greater than 3.5.
C9_TypeClosedComparisons ==
    /\ (query.left = query.right /\ IsComparable(LeftValue)) =>
          /\ outcome["EqualTo"] \in {"none", "true"}
          /\ outcome["LessThan"] \in {"none", "false"}
    /\ (IsComparable(LeftValue) /\ IsComparable(RightValue) /\ LeftValue.t # RightValue.t) =>
          \A op \in OrderingOperators : outcome[op] \in {"none", "false"}
    /\ (query.left = SingularQuery("Relative", <<>>) /\ query.right = Literal("num", 7)) =>
          outcome["GreaterThan"] \in
              {"none", Bool3(tree[cur].t = "num" /\ tree[cur].val > 7)}

\* C10: `a != b` is the negation of `a == b`; `a <= b` is (a < b) or
\* (a == b); `a > b` is not (a < b) and not (a == b); `a >= b` is not
\* (a < b).  Stated of the pairs on which all six tests returned.
C10_OperatorRelations ==
    (pc = "done" /\ \A op \in ComparisonOperators : outcome[op] # "panic") =>
        LET holds(op) == outcome[op] = "true"
        IN  /\ holds("NotEqualTo") = ~holds("EqualTo")
            /\ holds("LessThanEqualTo") = (holds("LessThan") \/ holds("EqualTo"))
            /\ holds("GreaterThan") = (~holds("LessThan") /\ ~holds("EqualTo"))
            /\ holds("GreaterThanEqualTo") = ~holds("LessThan")

\* json.rs: Value == Value, the derived structural equality; the members of
\* an object are compared by key
RECURSIVE ValueEq(_, _, _)
ValueEq(T, a, b) ==
    /\ T[a].t = T[b].t
    /\ T[a].val = T[b].val
    /\ Len(T[a].kids) = Len(T[b].kids)
    /\ IF T[a].t = "obj"
       THEN /\ Range(T[a].keys) = Range(T[b].keys)
            /\ \A i \in 1..Len(T[a].kids) :
                  ValueEq(T, T[a].kids[i], ObjectGet(T, b, T[a].keys[i])[1])
       ELSE \A i \in 1..Len(T[a].kids) : ValueEq(T, T[a].kids[i], T[b].kids[i])

\* json.rs is_equal_to, on two operands that hold a value: a node of the
\* heap or a literal, which is a primitive
is_equal_to(T, left, right) ==
    IF left.k = "Node" /\ right.k = "Node" THEN ValueEq(T, left.ref, right.ref)
    ELSE IF left.t = "num" /\ right.t = "num" THEN left.val = right.val
    ELSE left.t = right.t /\ left.val = right.val

\* C11: `==` tests true when both operands are Nothing, false when exactly
\* one is Nothing, and otherwise what the backend's is_equal_to says of the
\* two values.
C11_EqualityOfNothing ==
    outcome["EqualTo"] \in
        {"none",
         IF LeftValue = Nothing /\ RightValue = Nothing THEN "true"
         ELSE IF LeftValue = Nothing \/ RightValue = Nothing THEN "false"
         ELSE Bool3(is_equal_to(tree, LeftValue, RightValue))}

(***************************************************************************)
(* Specification SpecExist: the query `$[?@.k]` applied to an array or an  *)
(* object of a few elements, or to a primitive.                            *)
(***************************************************************************)
NullLeaf == Leaf("null", 0)

\* the values a member may hold: null, [], {}
MemberValues == {NullLeaf, Arr(<<>>), Obj(<<>>, <<>>)}

\* an element: a primitive, an empty container, or an object of one or two
\* members; `members` are the element's member values, in order
ElementShapes ==
    {[node |-> n, members |-> <<>>] :
        n \in {NullLeaf, NumberLeaf(1), Arr(<<>>), Obj(<<>>, <<>>)}}
    \cup {[node |-> Obj(<<k>>, <<>>), members |-> <<m>>] :
            k \in {"a", "j"}, m \in MemberValues}
    \cup {[node |-> Obj(<<"j", "a">>, <<>>), members |-> <<NumberLeaf(1), NullLeaf>>]}

\* the heap id of element i: the root is 1, an element is followed by its members
RECURSIVE ElementId(_, _)
ElementId(es, i) ==
    IF i = 1 THEN 2 ELSE ElementId(es, i - 1) + 1 + Len(es[i - 1].members)

\* the value whose root, an array or an object, holds the elements es
ExistTree(rootKind, es) ==
    LET ids == [i \in 1..Len(es) |-> ElementId(es, i)]
        root == IF rootKind = "arr" THEN Arr(ids)
                ELSE Obj([i \in 1..Len(es) |-> KeyNames[i]], ids)
        element(i) ==
            <<[es[i].node EXCEPT
                  !.kids = [j \in 1..Len(es[i].members) |-> ids[i] + j]]>>
            \o es[i].members
    IN  <<root>> \o Flatten([i \in 1..Len(es) |-> element(i)])

ExistTrees ==
    {ExistTree(rk, es) :
        rk \in {"arr", "obj"},
        es \in UNION {[1..n -> ElementShapes] : n \in 0..MaxElems}}
    \cup {<<NullLeaf>>, <<NumberLeaf(1)>>}

\* $[?@.k]
ExistQuery(k) ==
    Query("Root", <<QuerySegment("Child",
        LongHand(<<FilterSel(OneTest(Exist(CurrentChild(k))))>>))>>)

InitExist ==
    /\ overflow_checks = TRUE
    /\ tree \in ExistTrees
    /\ cur = 1
    /\ query \in {ExistQuery(k) : k \in {"a", "j"}}
    /\ nodes = <<>>
    /\ located = <<>>
    /\ outcome = NoOutcome
    /\ text = <<>>
    /\ parsed = <<>>
    /\ pc = "start"

SpecExist == InitExist /\ [][NextQuery]_vars

\* the name k of the query $[?@.k]
ExistName == query.segments[1].segment.selectors[1].expr.exprs[1].exprs[1].q.segments[1].segment.name

\* the elements of s that satisfy keep, in order
RECURSIVE KeepInOrder(_, _)
KeepInOrder(s, keep) ==
    IF s = <<>> THEN <<>>
    ELSE (IF Head(s) \in keep THEN <<Head(s)>> ELSE <<>>) \o KeepInOrder(Tail(s), keep)

\* C12: `$[?@.k]` selects, in iteration order, exactly the elements (or
\* member values) e for which `@.k` with current node e is non-empty; these
\* are the objects that have a member k, whatever its value (null, {} and
\* [] included); applied to a primitive it selects nothing.
C12_FilterExistence ==
    pc # "start" =>
        /\ nodes = KeepInOrder(tree[1].kids,
                {e \in Range(tree[1].kids) :
                    QueryQuery(tree, CurrentChild(ExistName), e, 1) # <<>>})
        /\ nodes = KeepInOrder(tree[1].kids,
                {e \in Range(tree[1].kids) :
                    tree[e].t = "obj" /\ ExistName \in Range(tree[e].keys)})

\* of two elements the filter kept the one whose member k is null and
\* dropped the other
C12_Witness ==
    /\ pc = "done"
    /\ Len(tree[1].kids) = 2
    /\ Len(nodes) = 1
    /\ tree[ObjectGet(tree, nodes[1], ExistName)[1]].t = "null"

(***************************************************************************)
(* spec/function: the types of function parameters and arguments, the      *)
(* registry and the validation of a call.                                  *)
(***************************************************************************)
SPathType == {"Nodes", "Value", "Logical"}
FunctionArgType == {"Literal", "SingularQuery", "Value", "NodeList", "Logical"}

\* a conversion table in which a singular query is a value only
converts_to_value_only(kind, spath_type) ==
    \/ kind \in {"Literal", "Value", "SingularQuery"} /\ spath_type = "Value"
    \/ kind = "NodeList" /\ spath_type \in {"Nodes", "Logical"}
    \/ kind = "Logical" /\ spath_type = "Logical"

\* FunctionArgType::converts_to
converts_to(kind, spath_type) ==
    \/ kind \in {"Literal", "Value"} /\ spath_type = "Value"
    \/ kind = "SingularQuery" /\ spath_type \in {"Value", "Nodes", "Logical"}
    \/ kind = "NodeList" /\ spath_type \in {"Nodes", "Logical"}
    \/ kind = "Logical" /\ spath_type = "Logical"

\* the FunctionArgType of a function's declared result type
as_function_arg_type(spath_type) ==
    CASE spath_type = "Nodes" -> "NodeList"
      [] spath_type = "Logical" -> "Logical"
      [] spath_type = "Value" -> "Value"

Function(name, argument_types, result_type) ==
    [name |-> name, argument_types |-> argument_types, result_type |-> result_type]

\* builtin.rs: the declarations of the built-in functions
length == Function("length", <<"Value">>, "Value")
count == Function("count", <<"Nodes">>, "Value")
value == Function("value", <<"Nodes">>, "Value")
matches == Function("match", <<"Value", "Value">>, "Logical")
search == Function("search", <<"Value", "Value">>, "Logical")

\* BuiltinFunctionRegistry, as the functions it knows
BuiltinFunctionRegistry == {count, length, value, matches, search}

\* FunctionRegistry::get on names in lower case
RegistryGet(registry, name) ==
    IF \E f \in registry : f.name = name
    THEN Some(CHOOSE f \in registry : f.name = name)
    ELSE None

\* FunctionExprArg and FunctionExpr
ArgLiteral(lit) == [k |-> "Literal", lit |-> lit]
ArgSingularQuery(sq) == [k |-> "SingularQuery", q |-> sq]
ArgFilterQuery(q) == [k |-> "FilterQuery", q |-> q]
ArgLogicalExpr(e) == [k |-> "LogicalExpr", e |-> e]
ArgFunctionExpr(f) == [k |-> "FunctionExpr", f |-> f]
FunctionExpr(name, args, return_type) ==
    [k |-> "FunctionExpr", name |-> name, args |-> args, return_type |-> return_type]

\* FunctionValidationError
Undefined(name) == [error |-> "Undefined", name |-> name]
NumberOfArgsMismatch(name, received) ==
    [error |-> "NumberOfArgsMismatch", name |-> name, expected |-> 1, received |-> received]
MismatchTypeKind(name, expected, received, position) ==
    [error |-> "MismatchTypeKind", name |-> name, expected |-> expected,
     received |-> received, position |-> position]
IncorrectFunctionReturnType == [error |-> "IncorrectFunctionReturnType"]

\* FunctionExprArg::as_type_kind: Ok(FunctionArgType) or Err(Undefined)
as_type_kind(arg, registry) ==
    CASE arg.k = "Literal" -> <<"Ok", "Literal">>
      [] arg.k = "SingularQuery" -> <<"Ok", "SingularQuery">>
      [] arg.k = "FilterQuery" ->
            IF QueryIsSingular(arg.q) THEN <<"Ok", "SingularQuery">>
            ELSE <<"Ok", "NodeList">>
      [] arg.k = "LogicalExpr" -> <<"Ok", "Logical">>
      [] arg.k = "FunctionExpr" ->
            IF RegistryGet(registry, arg.f.name) = None
            THEN <<"Err", Undefined(arg.f.name)>>
            ELSE <<"Ok", as_function_arg_type(
                            RegistryGet(registry, arg.f.name)[1].result_type)>>

\* the loop `for (i, arg) in args.iter().enumerate()` of Function::validate
RECURSIVE ValidateArgs(_, _, _, _)
ValidateArgs(f, args, registry, i) ==
    IF i > Len(args) THEN <<"Ok">>
    ELSE LET check(kind) ==
                 IF kind[1] = "Err" THEN kind
                 ELSE IF ~converts_to(kind[2], f.argument_types[i])
                 THEN <<"Err", MismatchTypeKind(f.name, f.argument_types[i],
                                                kind[2], i - 1)>>
                 ELSE ValidateArgs(f, args, registry, i + 1)
         IN  check(as_type_kind(args[i], registry))

\* Function::validate: Ok(()) or Err(FunctionValidationError)
FunctionValidate(f, args, registry) ==
    IF Len(args) # Len(f.argument_types)
    THEN <<"Err", NumberOfArgsMismatch(f.name, Len(args))>>
    ELSE ValidateArgs(f, args, registry, 1)

(***************************************************************************)
(* Specification SpecValidate: Function::validate on a function of up to   *)
(* MaxParams declared parameters and a list of actual arguments, with the  *)
(* built-in registry or a registry that also knows a function returning    *)
(* nodes.                                                                  *)
(***************************************************************************)
\* a registry that adds a function of result type Nodes to the built-in ones
UserFunctionRegistry == BuiltinFunctionRegistry \cup {Function("nodes", <<"Nodes">>, "Nodes")}

\* 1   @.a   @.a (as a query)   @.*   @.a (as a test)   and four calls
ValidateArgExprs ==
    { ArgLiteral(Literal("num", 1)),
      ArgSingularQuery(SingularQuery("Relative", <<Name("a")>>)),
      ArgFilterQuery(CurrentChild("a")),
      ArgFilterQuery(Query("Current", <<QuerySegment("Child", WildcardSegment)>>)),
      ArgLogicalExpr(OneTest(Exist(CurrentChild("a")))) }
    \cup {ArgFunctionExpr(FunctionExpr(n, <<>>, "Value")) :
            n \in {"length", "match", "nodes", "unknown"}}

SeqsUpTo(S, n) == UNION {[1..m -> S] : m \in 0..n}

InitValidate ==
    /\ overflow_checks = TRUE
    /\ tree = <<NullLeaf>>
    /\ cur = 1
    /\ query \in [function : {Function("f", tys, "Value") : tys \in SeqsUpTo(SPathType, MaxParams)},
                  args : SeqsUpTo(ValidateArgExprs, MaxParams),
                  registry : {BuiltinFunctionRegistry, UserFunctionRegistry}]
    /\ nodes = <<>>
    /\ located = <<>>
    /\ outcome = NoOutcome
    /\ text = <<>>
    /\ parsed = <<>>
    /\ pc = "start"

ValidateStep ==
    /\ pc = "start"
    /\ parsed' = FunctionValidate(query.function, query.args, query.registry)
    /\ pc' = "validated"
    /\ UNCHANGED <<overflow_checks, tree, cur, query, nodes, located, outcome, text>>

NextValidate == ValidateStep

SpecValidate == InitValidate /\ [][NextValidate]_vars

\* the declared result type of the function an argument calls, if defined
CalledResult(arg) ==
    IF arg.k = "FunctionExpr" /\ RegistryGet(query.registry, arg.f.name) # None
    THEN RegistryGet(query.registry, arg.f.name)[1].result_type
    ELSE "none"

\* the parameter types the conversion table allows for an argument
TableAllows(arg) ==
    IF arg.k = "Literal" \/ CalledResult(arg) = "Value" THEN {"Value"}
    ELSE IF arg.k = "SingularQuery" \/ (arg.k = "FilterQuery" /\ QueryIsSingular(arg.q))
    THEN {"Value", "Nodes", "Logical"}
    ELSE IF (arg.k = "FilterQuery" /\ ~QueryIsSingular(arg.q)) \/ CalledResult(arg) = "Nodes"
    THEN {"Nodes", "Logical"}
    ELSE IF arg.k = "LogicalExpr" \/ CalledResult(arg) = "Logical" THEN {"Logical"}
    ELSE {}

\* the positions, from 0, of the arguments the table does not allow
TableRejects ==
    {i - 1 : i \in {j \in 1..Len(query.args) :
                query.function.argument_types[j] \notin TableAllows(query.args[j])}}

\* C13: a call with as many arguments as declared parameters, all functions
\* it names being defined, is accepted exactly when the conversion table
\* allows every argument for its parameter; otherwise it is rejected with a
\* type mismatch that names the position of the first argument not allowed.
C13_ConversionTable ==
    (/\ pc = "validated"
     /\ Len(query.args) = Len(query.function.argument_types)
     /\ \A j \in 1..Len(query.args) :
            query.args[j].k = "FunctionExpr" => CalledResult(query.args[j]) # "none") =>
        IF TableRejects = {} THEN parsed = <<"Ok">>
        ELSE /\ parsed[1] = "Err"
             /\ parsed[2].error = "MismatchTypeKind"
             /\ parsed[2].position \in TableRejects
             /\ \A p \in TableRejects : parsed[2].position <= p

\* a singular query was accepted for a Nodes parameter and the literal after
\* it rejected for a Logical one
C13_Witness ==
    /\ pc = "validated"
    /\ query.function.argument_types = <<"Nodes", "Logical">>
    /\ Len(query.args) = 2
    /\ query.args[1].k = "SingularQuery"
    /\ query.args[2].k = "Literal"
    /\ parsed = <<"Err", MismatchTypeKind("f", "Logical", "Literal", 1)>>

(***************************************************************************)
(* Display (spec/query.rs, spec/segment.rs, spec/selector) and the parser  *)
(* (parser/token.rs, parser/runner.rs, parser/parse.rs).  A text is a      *)
(* sequence of characters, a character is its code point.                  *)
(***************************************************************************)
Ch ==
    ("$" :> 36) @@ ("[" :> 91) @@ ("]" :> 93) @@ ("," :> 44) @@ ("*" :> 42)
    @@ ("'" :> 39) @@ ("\"" :> 34) @@ ("\\" :> 92) @@ ("_" :> 95)
    @@ (" " :> 32) @@ ("\t" :> 9) @@ ("\n" :> 10) @@ ("\r" :> 13) @@ ("\f" :> 12)
    @@ ("BS" :> 8)
    @@ ("a" :> 97) @@ ("b" :> 98) @@ ("c" :> 99) @@ ("d" :> 100) @@ ("e" :> 101)
    @@ ("f" :> 102) @@ ("g" :> 103) @@ ("h" :> 104) @@ ("i" :> 105) @@ ("j" :> 106)
    @@ ("k" :> 107) @@ ("l" :> 108) @@ ("m" :> 109) @@ ("n" :> 110) @@ ("o" :> 111)
    @@ ("p" :> 112) @@ ("q" :> 113) @@ ("r" :> 114) @@ ("s" :> 115) @@ ("t" :> 116)
    @@ ("u" :> 117) @@ ("v" :> 118) @@ ("w" :> 119) @@ ("x" :> 120) @@ ("y" :> 121)
    @@ ("z" :> 122) @@ ("E" :> 69)
    @@ ("0" :> 48) @@ ("1" :> 49) @@ ("2" :> 50) @@ ("3" :> 51) @@ ("4" :> 52)
    @@ ("5" :> 53) @@ ("6" :> 54) @@ ("7" :> 55) @@ ("8" :> 56) @@ ("9" :> 57)
    @@ ("-" :> 45) @@ ("+" :> 43) @@ ("." :> 46) @@ ("(" :> 40) @@ (")" :> 41)
    @@ ("?" :> 63) @@ ("@" :> 64) @@ ("!" :> 33) @@ (":" :> 58) @@ ("=" :> 61)
    @@ ("<" :> 60) @@ (">" :> 62) @@ ("&" :> 38) @@ ("|" :> 124)

\* the text spelled by a sequence of character labels
Str(labels) == [i \in 1..Len(labels) |-> Ch[labels[i]]]

\* <Name as Display>::fmt: write!(f, "'{}'", self.name)
NameDisplay(n) == <<Ch["'"]>> \o n.name \o <<Ch["'"]>>

\* <Selector as Display>::fmt, for the name and wildcard selectors
SelectorDisplay(sel) ==
    CASE sel.k = "name" -> NameDisplay(sel)
      [] sel.k = "wildcard" -> <<Ch["*"]>>

\* <Segment as Display>::fmt, the LongHand arm: [s1,s2,...]
SegmentDisplay(seg) ==
    <<Ch["["]>>
    \o Flatten([i \in 1..Len(seg.selectors) |->
                  SelectorDisplay(seg.selectors[i])
                  \o (IF i = Len(seg.selectors) THEN <<>> ELSE <<Ch[","]>>)])
    \o <<Ch["]"]>>

\* <Query as Display>::fmt with <QuerySegment as Display>::fmt for child segments
QueryDisplay(q) ==
    <<Ch["$"]>> \o Flatten([i \in 1..Len(q.segments) |-> SegmentDisplay(q.segments[i].segment)])

Ok(x) == <<"Ok", x>>
Err == <<"Err">>
IsOk(r) == r[1] = "Ok"

IsWhitespace(c) == c \in {Ch[" "], Ch["\t"], Ch["\r"], Ch["\n"], Ch["\f"]}
IsIdentStart(c) == c = Ch["_"] \/ c \in 65..90 \/ c \in 97..122 \/ c \in 128..65535
IsIdentPart(c) == IsIdentStart(c) \/ c \in 48..57

\* the regex '([^'\\]|\\.)*' (and the same with "): the position of the
\* closing quote of the string that opens at position i, or 0 for no match
RECURSIVE StringEnd(_, _, _)
StringEnd(src, quote, j) ==
    IF j > Len(src) THEN 0
    ELSE IF src[j] = quote THEN j
    ELSE IF src[j] = Ch["\\"]
         THEN (IF j + 1 > Len(src) \/ src[j + 1] = Ch["\n"] THEN 0
               ELSE StringEnd(src, quote, j + 2))
    ELSE StringEnd(src, quote, j + 1)

RECURSIVE IdentEnd(_, _)
IdentEnd(src, j) ==
    IF j + 1 <= Len(src) /\ IsIdentPart(src[j + 1]) THEN IdentEnd(src, j + 1) ELSE j

Token(kind, txt) == [kind |-> kind, text |-> txt]

IsDigit(c) == c \in 48..57

\* [0-9]+ from the digit at position j: the position of its last digit
RECURSIVE DigitsEnd(_, _)
DigitsEnd(src, j) ==
    IF j + 1 <= Len(src) /\ IsDigit(src[j + 1]) THEN DigitsEnd(src, j + 1) ELSE j

\* (_|[0-9])* after position j: the position of its last character
RECURSIVE IntegerEnd(_, _)
IntegerEnd(src, j) ==
    IF j + 1 <= Len(src) /\ (IsDigit(src[j + 1]) \/ src[j + 1] = Ch["_"])
    THEN IntegerEnd(src, j + 1) ELSE j

\* [eE][+-]?[0-9]+ after position j: the position of its last digit, or 0
ExponentEnd(src, j) ==
    IF j + 1 <= Len(src) /\ src[j + 1] \in {Ch["e"], Ch["E"]}
    THEN LET k == IF j + 2 <= Len(src) /\ src[j + 2] \in {Ch["+"], Ch["-"]}
                  THEN j + 2 ELSE j + 1
         IN  IF k + 1 <= Len(src) /\ IsDigit(src[k + 1]) THEN DigitsEnd(src, k + 1)
             ELSE 0
    ELSE 0

\* the two LiteralFloat patterns after the digits that end at position d:
\* the position of the last character of the float, or 0
FloatEnd(src, d) ==
    IF ExponentEnd(src, d) # 0 THEN ExponentEnd(src, d)
    ELSE IF d + 2 <= Len(src) /\ src[d + 1] = Ch["."] /\ IsDigit(src[d + 2])
    THEN LET f == DigitsEnd(src, d + 2)
         IN  IF ExponentEnd(src, f) # 0 THEN ExponentEnd(src, f) ELSE f
    ELSE 0

\* the #[token(...)] attributes of TokenKind
SymbolKind(txt) ==
    CASE txt = Str(<<"=">>) -> "Eq" [] txt = Str(<<"=", "=">>) -> "Eq"
      [] txt = Str(<<"<", ">">>) -> "NotEq" [] txt = Str(<<"!", "=">>) -> "NotEq"
      [] txt = Str(<<"!">>) -> "Not"
      [] txt = Str(<<"<">>) -> "Lt" [] txt = Str(<<">">>) -> "Gt"
      [] txt = Str(<<"<", "=">>) -> "Lte" [] txt = Str(<<">", "=">>) -> "Gte"
      [] txt = Str(<<"&", "&">>) -> "And" [] txt = Str(<<"|", "|">>) -> "Or"
      [] txt = Str(<<"$">>) -> "Dollar" [] txt = Str(<<"@">>) -> "At"
      [] txt = Str(<<".">>) -> "Dot" [] txt = Str(<<"*">>) -> "Asterisk"
      [] txt = Str(<<":">>) -> "Colon" [] txt = Str(<<",">>) -> "Comma"
      [] txt = Str(<<"?">>) -> "QuestionMark"
      [] txt = Str(<<"(">>) -> "LParen" [] txt = Str(<<")">>) -> "RParen"
      [] txt = Str(<<"[">>) -> "LBracket" [] txt = Str(<<"]">>) -> "RBracket"
      [] OTHER -> "none"

\* the keyword tokens take an identifier of exactly their text
IdentKind(txt) ==
    CASE txt = Str(<<"f", "a", "l", "s", "e">>) -> "FALSE"
      [] txt = Str(<<"n", "u", "l", "l">>) -> "NULL"
      [] txt = Str(<<"t", "r", "u", "e">>) -> "TRUE"
      [] OTHER -> "Ident"

\* the longest token that starts at position i: [kind, stop], stop = 0 when
\* the lexer recognises none
NextToken(src, i) ==
    LET c == src[i]
        two == IF i + 1 <= Len(src) THEN SymbolKind(SubSeq(src, i, i + 1)) ELSE "none"
        d == IF IsDigit(c) THEN DigitsEnd(src, i)
             ELSE IF c = Ch["-"] /\ i + 1 <= Len(src) /\ IsDigit(src[i + 1])
             THEN DigitsEnd(src, i + 1)
             ELSE 0
    IN  IF c \in {Ch["'"], Ch["\""]}
        THEN [kind |-> "LiteralString", stop |-> StringEnd(src, c, i + 1)]
        ELSE IF IsIdentStart(c)
        THEN [kind |-> IdentKind(SubSeq(src, i, IdentEnd(src, i))),
              stop |-> IdentEnd(src, i)]
        ELSE IF d # 0
        THEN (IF FloatEnd(src, d) # 0
              THEN [kind |-> "LiteralFloat", stop |-> FloatEnd(src, d)]
              ELSE [kind |-> "LiteralInteger", stop |-> IntegerEnd(src, d)])
        ELSE IF two # "none" THEN [kind |-> two, stop |-> i + 1]
        ELSE IF SymbolKind(<<c>>) # "none" THEN [kind |-> SymbolKind(<<c>>), stop |-> i]
        ELSE [kind |-> "none", stop |-> 0]

\* Tokenizer::next over the whole source: run_tokenizer collects every
\* token, the EOI token last, or fails on the first text the lexer does not
\* recognise
RECURSIVE run_tokenizer(_, _)
run_tokenizer(src, i) ==
    IF i > Len(src) THEN Ok(<<Token("EOI", <<>>)>>)
    ELSE IF IsWhitespace(src[i]) THEN run_tokenizer(src, i + 1)
    ELSE LET collect(t) ==
                 IF t.stop = 0 THEN Err
                 ELSE LET rest == run_tokenizer(src, t.stop + 1)
                      IN  IF IsOk(rest)
                          THEN Ok(<<Token(t.kind, SubSeq(src, i, t.stop))>> \o rest[2])
                          ELSE Err
         IN  collect(NextToken(src, i))

Panic == <<"Panic">>

\* char::to_digit
to_digit(c, radix) ==
    LET d == IF c \in 48..57 THEN c - 48
             ELSE IF c \in 97..122 THEN c - 87
             ELSE IF c \in 65..90 THEN c - 55
             ELSE radix
    IN  IF d < radix THEN Some(d) ELSE None

\* char::from_u32: no surrogate, nothing above U+10FFFF
char_from_u32(code) ==
    IF code \in 0..55295 \/ code \in 57344..1114111 THEN Some(code) ELSE None

\* the loop over chars.take(n) of unescape_unicode and unescape_byte:
\* [code: Option, rest]
RECURSIVE HexDigits(_, _, _)
HexDigits(chars, n, code) ==
    IF n = 0 \/ chars = <<>> THEN [code |-> Some(code), rest |-> chars]
    ELSE LET d == to_digit(Head(chars), 16)
         IN  IF d = None THEN [code |-> None, rest |-> Tail(chars)]
             ELSE HexDigits(Tail(chars), n - 1, code * 16 + d[1])

\* [ch: Option<char>, rest]
unescape_unicode(chars) ==
    LET r == HexDigits(chars, 4, 0)
    IN  [ch |-> IF r.code = None THEN None ELSE char_from_u32(r.code[1]), rest |-> r.rest]

unescape_byte(chars) ==
    LET r == HexDigits(chars, 2, 0)
    IN  [ch |-> IF r.code = None THEN None ELSE char_from_u32(r.code[1]), rest |-> r.rest]

\* oct * 8 + digit on the u32 oct = hi * 2^16 + lo: [hi, lo], hi >= 2^16
\* when the result does not fit the u32
U32Limb == 2^16
u32_mul8_add(oct, digit) ==
    [hi |-> oct.hi * 8 + ((oct.lo * 8 + digit) \div U32Limb),
     lo |-> (oct.lo * 8 + digit) % U32Limb]

\* the loop `while let Some(c) = chars.peek()` of unescape_octal; an
\* arithmetic overflow panics in a build with overflow checks and wraps
\* around in a build without
RECURSIVE OctalDigits(_, _)
OctalDigits(chars, oct) ==
    IF chars # <<>> /\ to_digit(Head(chars), 8) # None
    THEN LET next(r) ==
                 IF r.hi < U32Limb THEN OctalDigits(Tail(chars), r)
                 ELSE IF overflow_checks THEN [code |-> None, rest |-> Tail(chars)]
                 ELSE OctalDigits(Tail(chars), [hi |-> r.hi % U32Limb, lo |-> r.lo])
         IN  next(u32_mul8_add(oct, to_digit(Head(chars), 8)[1]))
    ELSE [code |-> Some(oct), rest |-> chars]

\* char::from_u32 of the u32 hi * 2^16 + lo
char_from_limbs(oct) ==
    IF oct.hi <= 16 THEN char_from_u32(oct.hi * U32Limb + oct.lo) ELSE None

\* [ch: Option<char>, rest]; ch = None is a panic: of the arithmetic, or of
\* the final unwrap()
unescape_octal(c1, chars) ==
    LET r == OctalDigits(chars, [hi |-> 0, lo |-> to_digit(c1, 8)[1]])
    IN  [ch |-> IF r.code = None THEN None ELSE char_from_limbs(r.code[1]), rest |-> r.rest]

\* the loop `while let Some(c) = chars.next()` of parse_string
RECURSIVE ParseStringLoop(_, _, _)
ParseStringLoop(chars, quote, output) ==
    IF chars = <<>> THEN Ok(output)
    ELSE LET c == Head(chars) IN
      IF c = Ch["\\"]
      THEN IF Len(chars) < 2 THEN Err
           ELSE LET e == chars[2]
                    rest == SubSeq(chars, 3, Len(chars))
                    push(ch) == ParseStringLoop(rest, quote, Append(output, ch))
                IN  CASE e = Ch["b"] -> push(Ch["BS"])
                      [] e = Ch["f"] -> push(Ch["\f"])
                      [] e = Ch["n"] -> push(Ch["\n"])
                      [] e = Ch["r"] -> push(Ch["\r"])
                      [] e = Ch["t"] -> push(Ch["\t"])
                      [] e = Ch["\\"] -> push(Ch["\\"])
                      [] e = Ch["u"] ->
                            LET r == unescape_unicode(rest)
                            IN  IF r.ch = None THEN Err
                                ELSE ParseStringLoop(r.rest, quote, Append(output, r.ch[1]))
                      [] e = Ch["x"] ->
                            LET r == unescape_byte(rest)
                            IN  IF r.ch = None THEN Err
                                ELSE ParseStringLoop(r.rest, quote, Append(output, r.ch[1]))
                      [] e \in 48..55 ->
                            LET r == unescape_octal(e, rest)
                            IN  IF r.ch = None THEN Panic
                                ELSE ParseStringLoop(r.rest, quote, Append(output, r.ch[1]))
                      [] OTHER -> IF e = quote THEN push(quote) ELSE Err
      ELSE IF c = quote THEN Err
      ELSE ParseStringLoop(Tail(chars), quote, Append(output, c))

\* parse_string: Ok(String), Err, or the panic of unescape_octal
parse_string(token) ==
    LET txt == token.text
        quote == txt[1]
    IN  IF Len(txt) < 2 \/ txt[Len(txt)] # quote THEN Err
        ELSE ParseStringLoop(SubSeq(txt, 2, Len(txt) - 1), quote, <<>>)

(***************************************************************************)
(* parser/error.rs, parser/input.rs and the winnow combinators that        *)
(* parse.rs is written with.  A parser applied to the tokens from position *)
(* i yields Ok(<<output, next position>>), the backtrack error Err         *)
(* (cut: false), a cut error Cut(message) (cut: true), or Panic.           *)
(*                                                                         *)
(* A parser's result depends on the tokens from its position on only, so   *)
(* the parsers that parse.rs calls after it consumed a token are looked up *)
(* in L, the results of those parsers at every later position: L[j - i] is *)
(* the row of position j for a parser at position i.                       *)
(***************************************************************************)
Cut(message) == <<"Cut", message>>

\* the message of an error that is no FunctionValidationError, a record as
\* those are
Message(txt) == [error |-> txt]

\* Error::is_backtrack
is_backtrack(r) == r = Err

\* Error::new, for a text the lexer or a literal conversion rejects: a
\* semantic violation, which cuts
Error_new(message) == Cut(Message(message))

\* a conversion of FunctionValidationError that leaves the error recoverable
from_external_error_backtrack(err) == Err

\* <Error as FromExternalError<_, FunctionValidationError>>::from_external_error
from_external_error(err) == Cut(err)

\* FromExternalError<_, NonSingularQueryError>: the failed conversion to a
\* singular query is recoverable
from_non_singular_query_error(err) == Err

At(L, i, j) == L[j - i]

\* <TokenKind as Parser>::parse_next
token(toks, i, kind) ==
    IF i <= Len(toks) /\ toks[i].kind = kind THEN Ok(<<toks[i], i + 1>>)
    ELSE IF kind = "EOI" THEN Cut(Message("failed to parse the rest of input"))
    ELSE Err

\* input::text, the text given by its character labels
text_(toks, i, labels) ==
    IF i <= Len(toks) /\ toks[i].text = Str(labels) THEN Ok(<<toks[i], i + 1>>) ELSE Err

\* alt over the results of the alternatives: the first that is not a
\* backtrack error, or the error of the last
alt(rs) ==
    rs[CHOOSE k \in 1..Len(rs) :
          /\ \A j \in 1..(k - 1) : is_backtrack(rs[j])
          /\ k = Len(rs) \/ ~is_backtrack(rs[k])]

\* a parser, then the parser K on its output v and the position j after it
Then(r, K(_, _)) == IF IsOk(r) THEN K(r[2][1], r[2][2]) ELSE r

\* Parser::map
map(r, F(_)) == IF IsOk(r) THEN Ok(<<F(r[2][1]), r[2][2]>>) ELSE r

\* the output of Parser::try_map: the error of F, converted by
\* from_external_error, replaces the result
TryMapped(r, o) == IF IsOk(o) THEN Ok(<<o[2], r[2][2]>>) ELSE o

\* Parser::try_map
try_map(r, F(_)) == IF IsOk(r) THEN TryMapped(r, F(r[2][1])) ELSE r

\* opt at position i
opt(r, i) ==
    IF is_backtrack(r) THEN Ok(<<None, i>>) ELSE map(r, LAMBDA v : Some(v))

\* the loop of separated at position i, after the first element: a
\* separator and an element, until either fails with a backtrack error,
\* which resets the input to before the separator; elem and loop name the
\* element parser and this loop in the rows of L
separated_loop(L, toks, i, sep, elem, loop) ==
    IF ~IsOk(text_(toks, i, sep)) THEN Ok(<<<<>>, i>>)
    ELSE LET e == At(L, i, i + 1)[elem]
         IN  IF is_backtrack(e) THEN Ok(<<<<>>, i>>)
             ELSE IF ~IsOk(e) THEN e
             ELSE map(At(L, i, e[2][2])[loop], LAMBDA rest : <<e[2][1]>> \o rest)

\* separated(1.., p, sep), first the result of p at position i
separated1(L, i, first, loop) ==
    Then(first, LAMBDA v, j : map(At(L, i, j)[loop], LAMBDA rest : <<v>> \o rest))

\* separated(0.., p, sep)
separated0(L, i, first, loop) ==
    IF is_backtrack(first) THEN Ok(<<<<>>, i>>) ELSE separated1(L, i, first, loop)

(***************************************************************************)
(* The functions that parse.rs maps over the outputs of its parsers.       *)
(***************************************************************************)
\* the i64 values, on the scale of the safe range: as 63 bits are to 53
I64_MAX == 2^(SafeBits + 10) - 1
I64_MIN == 0 - 2^(SafeBits + 10)

\* <i64 as FromStr>::from_str over the digits: every character a decimal
\* digit and no overflow, the value accumulated with the sign
RECURSIVE FromStrDigits(_, _, _)
FromStrDigits(chars, sign, acc) ==
    IF chars = <<>> THEN Some(acc)
    ELSE IF ~IsDigit(Head(chars)) THEN None
    ELSE LET n == acc * 10 + sign * (Head(chars) - 48)
         IN  IF n > I64_MAX \/ n < I64_MIN THEN None
             ELSE FromStrDigits(Tail(chars), sign, n)

\* parse_integer: text.parse::<i64>()
parse_integer(tok) ==
    LET neg == tok.text # <<>> /\ tok.text[1] = Ch["-"]
        digits == IF neg THEN Tail(tok.text) ELSE tok.text
        parse(n) == IF digits = <<>> \/ n = None THEN Err
                    ELSE Ok(n[1])
    IN  parse(FromStrDigits(digits, IF neg THEN 0 - 1 ELSE 1, 0))

\* parse_float: the literal keeps the text of a token that matches the
\* pattern of LiteralFloat, which text.parse::<f64>() always accepts
parse_float(tok) == Ok(tok.text)

\* Option<&Token>::map(parse_integer).transpose()
ParseOptionalInteger(o) ==
    IF o = None THEN Ok(None)
    ELSE LET transpose(r) == IF IsOk(r) THEN Ok(Some(r[2])) ELSE r
         IN  transpose(parse_integer(o[1]))

\* Slice::new(start, end, step) of three optional i64: construction outside
\* the safe range is an error
SliceNew(start, end, step) ==
    IF \A o \in {start, end, step} : o = None \/ check_i64_is_valid(o[1])
    THEN Ok(Slice(start, end, step))
    ELSE Err

\* the closure of parse_array_slice
ParseSliceParams(start, end, step) ==
    LET build(s, e, t) ==
            IF ~IsOk(s) THEN s ELSE IF ~IsOk(e) THEN e ELSE IF ~IsOk(t) THEN t
            ELSE SliceNew(s[2], e[2], t[2])
    IN  build(ParseOptionalInteger(start), ParseOptionalInteger(end),
              ParseOptionalInteger(step))

\* <SingularQuerySegment as TryFrom<Selector>>::try_from
SingularSegmentFromSelector(selector) ==
    CASE selector.k = "name" -> Ok(selector)
      [] selector.k = "wildcard" -> <<"Err", "Wildcard">>
      [] selector.k = "index" -> Ok(selector)
      [] selector.k = "slice" -> <<"Err", "Slice">>
      [] selector.k = "filter" -> <<"Err", "Filter">>

\* <SingularQuerySegment as TryFrom<QuerySegment>>::try_from
SingularSegmentFromSegment(segment) ==
    IF segment.kind = "Descendant" THEN <<"Err", "Descendant">>
    ELSE CASE segment.segment.k = "LongHand" ->
                IF Len(segment.segment.selectors) > 1 THEN <<"Err", "TooManySelectors">>
                ELSE IF Len(segment.segment.selectors) = 1
                THEN SingularSegmentFromSelector(segment.segment.selectors[1])
                ELSE <<"Err", "NoSelectors">>
           [] segment.segment.k = "DotName" -> Ok(Name(segment.segment.name))
           [] segment.segment.k = "Wildcard" -> <<"Err", "Wildcard">>

\* the collect::<Result<Vec<_>, _>>() of <SingularQuery as TryFrom<Query>>
RECURSIVE CollectSingularSegments(_, _)
CollectSingularSegments(segments, acc) ==
    IF segments = <<>> THEN Ok(acc)
    ELSE LET collect(r) ==
                 IF IsOk(r) THEN CollectSingularSegments(Tail(segments), Append(acc, r[2]))
                 ELSE r
         IN  collect(SingularSegmentFromSegment(Head(segments)))

\* <SingularQuery as TryFrom<Query>>::try_from
SingularQueryTryFrom(q) ==
    LET build(r) ==
            IF IsOk(r)
            THEN Ok(SingularQuery(IF q.kind = "Root" THEN "Absolute" ELSE "Relative", r[2]))
            ELSE r
    IN  build(CollectSingularSegments(q.segments, <<>>))

\* the names of the functions, as the identifiers spell them
Spelling ==
    [ length |-> Str(<<"l", "e", "n", "g", "t", "h">>),
      count |-> Str(<<"c", "o", "u", "n", "t">>),
      value |-> Str(<<"v", "a", "l", "u", "e">>),
      match |-> Str(<<"m", "a", "t", "c", "h">>),
      search |-> Str(<<"s", "e", "a", "r", "c", "h">>),
      nodes |-> Str(<<"n", "o", "d", "e", "s">>),
      unknown |-> Str(<<"u", "n", "k", "n", "o", "w", "n">>) ]

\* Token::text().to_string() of an identifier
to_string(txt) ==
    IF \E n \in DOMAIN Spelling : Spelling[n] = txt
    THEN CHOOSE n \in DOMAIN Spelling : Spelling[n] = txt
    ELSE "?"

\* BasicExpr::FuncExpr, BasicExpr::FuncNotExpr
FuncExpr(f) == [k |-> "FuncExpr", f |-> f]
FuncNotExpr(f) == [k |-> "FuncNotExpr", f |-> f]

\* the body of parse_function_expr after the call is parsed: the lookup in
\* the registry and Function::validate
BuildFunctionExpr(name, args, registry) ==
    IF RegistryGet(registry, name) = None THEN from_external_error(Undefined(name))
    ELSE LET function == RegistryGet(registry, name)[1]
             validated(r) ==
                 IF r[1] = "Err" THEN from_external_error(r[2])
                 ELSE Ok(FunctionExpr(name, args, function.result_type))
         IN  validated(FunctionValidate(function, args, registry))

\* the error of a literal conversion, made by Error::new and left as it is
\* by from_external_error
Literal_(f, r) == IF r = Panic \/ IsOk(r) THEN r ELSE Error_new(f)

(***************************************************************************)
(* parser/parse.rs: the grammar.                                           *)
(***************************************************************************)
parse_wildcard_selector(toks, i) == map(text_(toks, i, <<"*">>), LAMBDA v : Wildcard)

parse_name_selector(toks, i) ==
    map(try_map(token(toks, i, "LiteralString"),
                LAMBDA t : Literal_("parse_string", parse_string(t))),
        LAMBDA name : Name(name))

parse_index(toks, i) ==
    map(try_map(token(toks, i, "LiteralInteger"),
                LAMBDA t : Literal_("parse_integer", parse_integer(t))),
        LAMBDA index : Index(index))

parse_index_selector(toks, i) == parse_index(toks, i)

OptionalInteger(toks, i) == opt(token(toks, i, "LiteralInteger"), i)

\* separated_pair(opt(LiteralInteger), text(":"), opt(LiteralInteger))
EndAndStep(toks, i) ==
    Then(OptionalInteger(toks, i), LAMBDA end, j :
    Then(text_(toks, j, <<":">>), LAMBDA colon, k :
    map(OptionalInteger(toks, k), LAMBDA step : <<end, step>>)))

parse_array_slice(toks, i) ==
    try_map(Then(OptionalInteger(toks, i), LAMBDA start, j :
            Then(text_(toks, j, <<":">>), LAMBDA colon, k :
            map(alt(<<EndAndStep(toks, k),
                      map(OptionalInteger(toks, k), LAMBDA end : <<end, None>>)>>),
                LAMBDA rest : <<start, rest>>))),
            LAMBDA v : Literal_("Slice::new", ParseSliceParams(v[1], v[2][1], v[2][2])))

parse_array_slice_selector(toks, i) == parse_array_slice(toks, i)

parse_dot_member_name(toks, i) ==
    map(alt(<<token(toks, i, "Ident"), token(toks, i, "TRUE"),
              token(toks, i, "FALSE"), token(toks, i, "NULL")>>),
        LAMBDA ident : ident.text)

parse_dot_wildcard_shorthand(toks, i) ==
    Then(text_(toks, i, <<".">>), LAMBDA dot, j :
    map(parse_wildcard_selector(toks, j), LAMBDA v : WildcardSegment))

parse_dot_member_name_shorthand(toks, i) ==
    Then(text_(toks, i, <<".">>), LAMBDA dot, j :
    map(parse_dot_member_name(toks, j), LAMBDA name : DotName(name)))

parse_literal(toks, i) ==
    alt(<<map(try_map(token(toks, i, "LiteralString"),
                      LAMBDA t : Literal_("parse_string", parse_string(t))),
              LAMBDA v : Literal("str", v)),
          map(try_map(token(toks, i, "LiteralInteger"),
                      LAMBDA t : Literal_("parse_integer", parse_integer(t))),
              LAMBDA v : Literal("int", v)),
          map(try_map(token(toks, i, "LiteralFloat"),
                      LAMBDA t : Literal_("parse_float", parse_float(t))),
              LAMBDA v : Literal("float", v)),
          map(token(toks, i, "TRUE"), LAMBDA v : Literal("bool", 1)),
          map(token(toks, i, "FALSE"), LAMBDA v : Literal("bool", 0)),
          map(token(toks, i, "NULL"), LAMBDA v : Literal("null", 0))>>)

parse_literal_comparable(toks, i) == parse_literal(toks, i)

parse_comparison_operator(toks, i) ==
    alt(<<map(text_(toks, i, <<"=", "=">>), LAMBDA v : "EqualTo"),
          map(text_(toks, i, <<"!", "=">>), LAMBDA v : "NotEqualTo"),
          map(text_(toks, i, <<"<", "=">>), LAMBDA v : "LessThanEqualTo"),
          map(text_(toks, i, <<"<">>), LAMBDA v : "LessThan"),
          map(text_(toks, i, <<">", "=">>), LAMBDA v : "GreaterThanEqualTo"),
          map(text_(toks, i, <<">">>), LAMBDA v : "GreaterThan")>>)

\* delimited(LBracket, parse_multi_selector.map(Segment::LongHand), RBracket)
parse_child_long_hand(L, toks, i) ==
    Then(token(toks, i, "LBracket"), LAMBDA open, j :
    Then(At(L, i, j).parse_multi_selector, LAMBDA selectors, k :
    map(token(toks, k, "RBracket"), LAMBDA close : LongHand(selectors))))

parse_descendant_segment(L, toks, i) ==
    Then(text_(toks, i, <<".", ".">>), LAMBDA dots, j :
    alt(<<map(parse_wildcard_selector(toks, j), LAMBDA v : WildcardSegment),
          At(L, i, j).parse_child_long_hand,
          map(parse_dot_member_name(toks, j), LAMBDA name : DotName(name))>>))

parse_child_segment(L, toks, i) ==
    alt(<<parse_dot_wildcard_shorthand(toks, i),
          parse_dot_member_name_shorthand(toks, i),
          parse_child_long_hand(L, toks, i)>>)

parse_segment(L, toks, i) ==
    alt(<<map(parse_descendant_segment(L, toks, i),
              LAMBDA segment : QuerySegment("Descendant", segment)),
          map(parse_child_segment(L, toks, i),
              LAMBDA segment : QuerySegment("Child", segment))>>)

\* repeat(0.., parse_segment): ends at a backtrack error; a parser that
\* consumes nothing is an assertion error
RepeatSegments(L, i, r) ==
    IF is_backtrack(r) THEN Ok(<<<<>>, i>>)
    ELSE IF IsOk(r) /\ r[2][2] = i THEN Cut(Message("repeat parsers must always consume"))
    ELSE Then(r, LAMBDA segment, j :
         map(At(L, i, j).parse_path_segments, LAMBDA rest : <<segment>> \o rest))

parse_path_segments(L, toks, i) == RepeatSegments(L, i, parse_segment(L, toks, i))

parse_root_query(L, toks, i) ==
    Then(text_(toks, i, <<"$">>), LAMBDA dollar, j :
    map(At(L, i, j).parse_path_segments, LAMBDA segments : Query("Root", segments)))

parse_current_query(L, toks, i) ==
    Then(text_(toks, i, <<"@">>), LAMBDA at, j :
    map(At(L, i, j).parse_path_segments, LAMBDA segments : Query("Current", segments)))

parse_query(L, toks, i) ==
    alt(<<parse_root_query(L, toks, i), parse_current_query(L, toks, i)>>)

\* the error of |query| query.try_into(), converted
SingularOrError(r) == IF IsOk(r) THEN r ELSE from_non_singular_query_error(r[2])

parse_singular_path(L, toks, i) ==
    try_map(parse_query(L, toks, i),
            LAMBDA q : SingularOrError(SingularQueryTryFrom(q)))

parse_singular_path_comparable(L, toks, i) == parse_singular_path(L, toks, i)

\* the call is parsed, then looked up and validated; an error of either
\* resets the input and is converted by from_external_error
parse_function_expr(L, toks, i, registry) ==
    try_map(Then(token(toks, i, "Ident"), LAMBDA name, j :
            Then(text_(toks, j, <<"(">>), LAMBDA open, k :
            Then(At(L, i, k).FunctionArguments, LAMBDA args, m :
            map(text_(toks, m, <<")">>), LAMBDA close : <<name, args>>)))),
            LAMBDA v : BuildFunctionExpr(to_string(v[1].text), v[2], registry))

\* the closure of parse_func_expr_inner
LogicalOrNodes(expr) ==
    IF expr.return_type \in {"Logical", "Nodes"} THEN Ok(expr)
    ELSE from_external_error(IncorrectFunctionReturnType)

parse_func_expr_inner(L, toks, i, registry) ==
    try_map(parse_function_expr(L, toks, i, registry), LogicalOrNodes)

\* the closure of parse_function_expr_comparable
ValueOnly(expr) ==
    IF expr.return_type = "Value" THEN Ok(expr)
    ELSE from_external_error(IncorrectFunctionReturnType)

parse_function_expr_comparable(L, toks, i, registry) ==
    try_map(parse_function_expr(L, toks, i, registry), ValueOnly)

parse_comparable(L, toks, i, registry) ==
    alt(<<parse_literal_comparable(toks, i),
          parse_singular_path_comparable(L, toks, i),
          parse_function_expr_comparable(L, toks, i, registry)>>)

parse_comp_expr(L, toks, i, registry) ==
    Then(parse_comparable(L, toks, i, registry), LAMBDA left, j :
    Then(parse_comparison_operator(toks, j), LAMBDA op, k :
    map(At(L, i, k).parse_comparable, LAMBDA right : Relation(left, op, right))))

\* delimited(text("("), parse_logical_or_expr, text(")"))
parse_paren_expr_inner(L, toks, i) ==
    Then(text_(toks, i, <<"(">>), LAMBDA open, j :
    Then(At(L, i, j).parse_logical_or_expr, LAMBDA e, k :
    map(text_(toks, k, <<")">>), LAMBDA close : e)))

parse_paren_expr(L, toks, i) ==
    map(parse_paren_expr_inner(L, toks, i), LAMBDA e : Paren(e))

parse_not_parent_expr(L, toks, i) ==
    Then(text_(toks, i, <<"!">>), LAMBDA not, j :
    map(At(L, i, j).parse_paren_expr_inner, LAMBDA e : ParenNot(e)))

parse_exist_expr_inner(L, toks, i) == parse_query(L, toks, i)

parse_exist_expr(L, toks, i) ==
    map(parse_exist_expr_inner(L, toks, i), LAMBDA q : Exist(q))

parse_not_exist_expr(L, toks, i) ==
    Then(text_(toks, i, <<"!">>), LAMBDA not, j :
    map(At(L, i, j).parse_exist_expr_inner, LAMBDA q : NotExist(q)))

parse_func_expr(L, toks, i, registry) ==
    map(parse_func_expr_inner(L, toks, i, registry), LAMBDA f : FuncExpr(f))

parse_not_func_expr(L, toks, i) ==
    Then(text_(toks, i, <<"!">>), LAMBDA not, j :
    map(At(L, i, j).parse_func_expr_inner, LAMBDA f : FuncNotExpr(f)))

parse_basic_expr(L, toks, i, registry) ==
    alt(<<parse_not_parent_expr(L, toks, i),
          parse_paren_expr(L, toks, i),
          parse_comp_expr(L, toks, i, registry),
          parse_not_exist_expr(L, toks, i),
          parse_exist_expr(L, toks, i),
          parse_not_func_expr(L, toks, i),
          parse_func_expr(L, toks, i, registry)>>)

\* separated(1.., parse_basic_expr, text("&&")).map(LogicalAndExpr)
parse_logical_and(L, toks, i, registry) ==
    map(separated1(L, i, parse_basic_expr(L, toks, i, registry), "SeparatedBasicExprs"),
        LogicalAndExpr)

\* separated(1.., parse_logical_and, text("||")).map(LogicalOrExpr)
parse_logical_or_expr(L, toks, i, registry) ==
    map(separated1(L, i, parse_logical_and(L, toks, i, registry), "SeparatedLogicalAnds"),
        LogicalOrExpr)

parse_filter(L, toks, i) ==
    Then(text_(toks, i, <<"?">>), LAMBDA mark, j : At(L, i, j).parse_logical_or_expr)

parse_filter_selector(L, toks, i) == map(parse_filter(L, toks, i), FilterSel)

parse_selector(L, toks, i) ==
    alt(<<parse_wildcard_selector(toks, i),
          parse_name_selector(toks, i),
          parse_array_slice_selector(toks, i),
          parse_index_selector(toks, i),
          parse_filter_selector(L, toks, i)>>)

\* separated(1.., parse_selector, text(","))
parse_multi_selector(L, toks, i) ==
    separated1(L, i, parse_selector(L, toks, i), "SeparatedSelectors")

parse_function_argument(L, toks, i, registry) ==
    alt(<<map(parse_literal(toks, i), ArgLiteral),
          map(parse_singular_path(L, toks, i), ArgSingularQuery),
          map(parse_query(L, toks, i), ArgFilterQuery),
          map(parse_function_expr(L, toks, i, registry), ArgFunctionExpr),
          map(parse_logical_or_expr(L, toks, i, registry), ArgLogicalExpr)>>)

\* separated(0.., parse_function_argument, text(",")) of parse_function_expr
FunctionArguments(L, toks, i, registry) ==
    separated0(L, i, parse_function_argument(L, toks, i, registry),
               "SeparatedFunctionArguments")

\* the results at position i of the parsers that are looked up, L the rows
\* of the later positions
Row(L, toks, i, registry) ==
    [ parse_path_segments |-> parse_path_segments(L, toks, i),
      parse_child_long_hand |-> parse_child_long_hand(L, toks, i),
      parse_multi_selector |-> parse_multi_selector(L, toks, i),
      parse_selector |-> parse_selector(L, toks, i),
      SeparatedSelectors |->
          separated_loop(L, toks, i, <<",">>, "parse_selector", "SeparatedSelectors"),
      parse_logical_or_expr |-> parse_logical_or_expr(L, toks, i, registry),
      parse_logical_and |-> parse_logical_and(L, toks, i, registry),
      SeparatedLogicalAnds |->
          separated_loop(L, toks, i, <<"|", "|">>, "parse_logical_and",
                         "SeparatedLogicalAnds"),
      parse_basic_expr |-> parse_basic_expr(L, toks, i, registry),
      SeparatedBasicExprs |->
          separated_loop(L, toks, i, <<"&", "&">>, "parse_basic_expr",
                         "SeparatedBasicExprs"),
      parse_comparable |-> parse_comparable(L, toks, i, registry),
      parse_paren_expr_inner |-> parse_paren_expr_inner(L, toks, i),
      parse_exist_expr_inner |-> parse_exist_expr_inner(L, toks, i),
      parse_func_expr_inner |-> parse_func_expr_inner(L, toks, i, registry),
      parse_function_argument |-> parse_function_argument(L, toks, i, registry),
      FunctionArguments |-> FunctionArguments(L, toks, i, registry),
      SeparatedFunctionArguments |->
          separated_loop(L, toks, i, <<",">>, "parse_function_argument",
                         "SeparatedFunctionArguments") ]

\* the rows of the positions i..Len(toks), the last position first computed
RECURSIVE Rows(_, _, _)
Rows(toks, i, registry) ==
    IF i > Len(toks) THEN <<>>
    ELSE LET build(later) ==
                 IF Len(later) = Len(toks) - i
                 THEN <<Row(later, toks, i, registry)>> \o later
                 ELSE later
         IN  build(Rows(toks, i + 1, registry))

\* parse_query_main: (parse_root_query, EOI)
parse_query_main(toks, registry) ==
    Then(parse_root_query(Rows(toks, 2, registry), toks, 1), LAMBDA q, j :
    map(token(toks, j, "EOI"), LAMBDA eoi : q))

\* run_parser: tokenize, then parse_query_main on the tokens
run_parser(src, registry) ==
    LET main(r) == IF IsOk(r) THEN Ok(r[2][1]) ELSE r
        parse(toks) ==
            IF ~IsOk(toks) THEN Error_new("failed to recognize the rest tokens")
            ELSE main(parse_query_main(toks[2], registry))
    IN  parse(run_tokenizer(src, 1))

(***************************************************************************)
(* Specification SpecRoundTrip: a query of one bracketed segment of name   *)
(* and wildcard selectors is formatted, and the text is parsed.            *)
(***************************************************************************)
\* a letter, the letter of the escape \n, an apostrophe, a backslash, a tab
NameChars == {Ch["a"], Ch["n"], Ch["'"], Ch["\\"], Ch["\t"]}

NameStrings == UNION {[1..n -> NameChars] : n \in 0..MaxNameLen}

RoundTripSelectors == {Name(n) : n \in NameStrings} \cup {Wildcard}

RoundTripQueries ==
    {Query("Root", <<QuerySegment("Child", LongHand(sels))>>) :
        sels \in {<<a>> : a \in RoundTripSelectors}
                 \cup {<<Name(<<Ch["a"]>>), b>> : b \in RoundTripSelectors}}

InitRoundTrip ==
    /\ overflow_checks = TRUE
    /\ tree = <<NumberLeaf(1)>>
    /\ cur = 1
    /\ query \in RoundTripQueries
    /\ nodes = <<>>
    /\ located = <<>>
    /\ outcome = NoOutcome
    /\ text = <<>>
    /\ parsed = <<>>
    /\ pc = "start"

DisplayStep ==
    /\ pc = "start"
    /\ text' = QueryDisplay(query)
    /\ pc' = "displayed"
    /\ UNCHANGED <<overflow_checks, tree, cur, query, nodes, located, outcome, parsed>>

ParseStep ==
    /\ pc = "displayed"
    /\ parsed' = run_parser(text, BuiltinFunctionRegistry)
    /\ pc' = "parsed"
    /\ UNCHANGED <<overflow_checks, tree, cur, query, nodes, located, outcome, text>>

NextRoundTrip == DisplayStep \/ ParseStep

SpecRoundTrip == InitRoundTrip /\ [][NextRoundTrip]_vars

\* C8: formatting a well-formed query with Display and parsing the text
\* again succeeds and yields a query structurally equal to the original,
\* also for names that hold an apostrophe, a backslash or a control
\* character.
C8_DisplayParseRoundTrip ==
    pc = "parsed" => parsed = Ok(query)

(***************************************************************************)
(* Specification SpecParse: run_parser on the text of a query with one     *)
(* bracketed selector: a filter whose test is a function call, its         *)
(* negation, a comparison with a call on either side, or a query; an       *)
(* index; or a slice.                                                      *)
(***************************************************************************)
\* the arguments written in the calls, with the FunctionArgType each one is
\* meant as ("none" for a call that is itself invalid)
ArgTable ==
    ("@" :> [text |-> Str(<<"@">>), kind |-> "SingularQuery"])
    @@ ("@.a" :> [text |-> Str(<<"@", ".", "a">>), kind |-> "SingularQuery"])
    @@ ("@.*" :> [text |-> Str(<<"@", ".", "*">>), kind |-> "NodeList"])
    @@ ("@[0:]" :> [text |-> Str(<<"@", "[", "0", ":", "]">>), kind |-> "NodeList"])
    @@ ("@[?@.a]" :> [text |-> Str(<<"@", "[", "?", "@", ".", "a", "]">>),
                      kind |-> "NodeList"])
    @@ ("@['a',0]" :> [text |-> Str(<<"@", "[", "'", "a", "'", ",", "0", "]">>),
                       kind |-> "NodeList"])
    @@ ("@..a" :> [text |-> Str(<<"@", ".", ".", "a">>), kind |-> "NodeList"])
    @@ ("1" :> [text |-> Str(<<"1">>), kind |-> "Literal"])
    @@ ("'a'" :> [text |-> Str(<<"'", "a", "'">>), kind |-> "Literal"])
    @@ ("length(@)" :> [text |-> Str(<<"l", "e", "n", "g", "t", "h", "(", "@", ")">>),
                        kind |-> "Value"])
    @@ ("match(@,'a')" :>
            [text |-> Str(<<"m", "a", "t", "c", "h", "(", "@", ",", "'", "a", "'", ")">>),
             kind |-> "Logical"])
    @@ ("unknown(@)" :> [text |-> Str(<<"u", "n", "k", "n", "o", "w", "n", "(", "@", ")">>),
                         kind |-> "none"])
    @@ ("count(@,@)" :> [text |-> Str(<<"c", "o", "u", "n", "t", "(", "@", ",", "@", ")">>),
                         kind |-> "none"])

\* no argument, one argument, or one followed by a singular query or a literal
ArgLists ==
    {<<>>} \cup {<<a>> : a \in DOMAIN ArgTable}
    \cup {<<a, b>> : a \in DOMAIN ArgTable, b \in {"@", "'a'"}}

\* the queries written as a whole filter test
ExistTexts == {"@", "@.a", "@.*", "@[0:]", "@[?@.a]", "@['a',0]", "@..a"}

\* the names called: the built-in functions, the function nodes of the
\* larger registry, and a name no registry knows
CalledNames == {"length", "count", "value", "match", "search", "nodes", "unknown"}

\* the decimal text of a natural number
RECURSIVE NatDisplay(_)
NatDisplay(n) == IF n < 10 THEN <<48 + n>> ELSE Append(NatDisplay(n \div 10), 48 + (n % 10))

\* <i64 as Display>::fmt
IntDisplay(n) == IF n < 0 THEN <<Ch["-"]>> \o NatDisplay(0 - n) ELSE NatDisplay(n)

\* integers inside the safe range, at its ends, past them, and at and past
\* the ends of i64
IntTexts ==
    {IntDisplay(n) : n \in {0, 1, 0 - 1, MAX, MAX + 1, MIN, MIN - 1, I64_MAX, I64_MIN}}
    \cup {NatDisplay(I64_MAX + 1), <<Ch["-"]>> \o NatDisplay(I64_MAX + 2)}

\* a slice parameter: absent, inside the safe range, at its ends, or past them
OptionalIntTexts ==
    {<<>>} \cup {IntDisplay(n) : n \in {1, MAX, MAX + 1, MIN, MIN - 1}}
    \cup {NatDisplay(I64_MAX + 1)}

\* args joined by commas
RECURSIVE JoinArgs(_)
JoinArgs(args) ==
    IF args = <<>> THEN <<>>
    ELSE IF Len(args) = 1 THEN ArgTable[args[1]].text
    ELSE ArgTable[args[1]].text \o <<Ch[","]>> \o JoinArgs(Tail(args))

CallText(name, args) ==
    Spelling[name] \o <<Ch["("]>> \o JoinArgs(args) \o <<Ch[")"]>>

\* the text of the query that a source describes
SourceText(s) ==
    Str(<<"$", "[">>)
    \o (CASE s.form = "test" -> <<Ch["?"]>> \o CallText(s.name, s.args)
          [] s.form = "not" -> Str(<<"?", "!">>) \o CallText(s.name, s.args)
          [] s.form = "left" ->
                <<Ch["?"]>> \o CallText(s.name, s.args) \o Str(<<" ", "<", " ", "3">>)
          [] s.form = "right" ->
                Str(<<"?", "3", " ", "<", " ">>) \o CallText(s.name, s.args)
          [] s.form = "exist" -> <<Ch["?"]>> \o ArgTable[s.args[1]].text
          [] s.form = "index" -> s.ints[1]
          [] s.form = "slice" ->
                s.ints[1] \o <<Ch[":"]>> \o s.ints[2] \o <<Ch[":"]>> \o s.ints[3]
          [] s.form = "slice2" -> s.ints[1] \o <<Ch[":"]>> \o s.ints[2])
    \o <<Ch["]"]>>

Source(form, registry, name, args, ints) ==
    [form |-> form, registry |-> registry, name |-> name, args |-> args, ints |-> ints]

Sources ==
    {Source(form, registry, name, args, <<>>) :
        form \in {"test", "not", "left", "right"},
        registry \in {BuiltinFunctionRegistry, UserFunctionRegistry},
        name \in CalledNames, args \in ArgLists}
    \cup {Source("exist", BuiltinFunctionRegistry, "", <<a>>, <<>>) : a \in ExistTexts}
    \cup {Source("index", BuiltinFunctionRegistry, "", <<>>, <<n>>) : n \in IntTexts}
    \cup {Source("slice", BuiltinFunctionRegistry, "", <<>>, <<a, b, c>>) :
            a \in OptionalIntTexts, b \in OptionalIntTexts, c \in OptionalIntTexts}
    \cup {Source("slice2", BuiltinFunctionRegistry, "", <<>>, <<a, b>>) :
            a \in OptionalIntTexts, b \in OptionalIntTexts}

InitParse ==
    /\ overflow_checks = TRUE
    /\ tree = <<NullLeaf>>
    /\ cur = 1
    /\ query \in Sources
    /\ nodes = <<>>
    /\ located = <<>>
    /\ outcome = NoOutcome
    /\ text = SourceText(query)
    /\ parsed = <<>>
    /\ pc = "start"

RunParserStep ==
    /\ pc = "start"
    /\ parsed' = run_parser(text, query.registry)
    /\ pc' = "parsed"
    /\ UNCHANGED <<overflow_checks, tree, cur, query, nodes, located, outcome, text>>

NextParse == RunParserStep

SpecParse == InitParse /\ [][NextParse]_vars

\* the test of the filter in a parsed query $[?test]
TestOf(q) == q.segments[1].segment.selectors[1].expr.exprs[1].exprs[1]

\* the call of a source is correctly typed: the function is registered, the
\* number of arguments is the declared one and every argument converts to
\* the declared type of its parameter
CorrectlyTyped(s) ==
    /\ RegistryGet(s.registry, s.name) # None
    /\ Len(s.args) = Len(RegistryGet(s.registry, s.name)[1].argument_types)
    /\ \A i \in 1..Len(s.args) :
          /\ ArgTable[s.args[i]].kind # "none"
          /\ s.args[i] # "@..a"
          /\ converts_to(ArgTable[s.args[i]].kind,
                         RegistryGet(s.registry, s.name)[1].argument_types[i])

ResultType(s) == RegistryGet(s.registry, s.name)[1].result_type

\* C14: a correctly typed call used as the whole filter test, with or
\* without `!`, parses exactly when its declared return type is Logical or
\* Nodes; used as an operand of a comparison it parses exactly when the
\* return type is Value; every function expression of a parsed tree is in
\* a position its return type allows.
C14_FunctionPosition ==
    (pc = "parsed" /\ query.form \in {"test", "not", "left", "right"}) =>
        /\ CorrectlyTyped(query) =>
              (IsOk(parsed) <=>
                  IF query.form \in {"test", "not"}
                  THEN ResultType(query) \in {"Logical", "Nodes"}
                  ELSE ResultType(query) = "Value")
        /\ IsOk(parsed) =>
              /\ TestOf(parsed[2]).k \in {"FuncExpr", "FuncNotExpr"} =>
                    TestOf(parsed[2]).f.return_type \in {"Logical", "Nodes"}
              /\ TestOf(parsed[2]).k = "Relation" =>
                    \A c \in {TestOf(parsed[2]).left, TestOf(parsed[2]).right} :
                        c.k = "FunctionExpr" => c.return_type = "Value"

\* the error of the first call of a source that is not registered or has
\* not the declared number of arguments, the calls among the arguments
\* before the call that holds them; None for a source without such a call
FirstCallError(s) ==
    LET bad == {i \in 1..Len(s.args) : ArgTable[s.args[i]].kind = "none"}
        first == CHOOSE i \in bad : \A j \in bad : i <= j
    IN  IF bad # {}
        THEN (IF s.args[first] = "unknown(@)" THEN Some(Undefined("unknown"))
              ELSE Some(NumberOfArgsMismatch("count", 2)))
        ELSE IF RegistryGet(s.registry, s.name) = None THEN Some(Undefined(s.name))
        ELSE IF Len(s.args) # Len(RegistryGet(s.registry, s.name)[1].argument_types)
        THEN Some(NumberOfArgsMismatch(s.name, Len(s.args)))
        ELSE None

\* C15: a filter with a call of an unregistered name, or with a number of
\* arguments other than the declared one, is never accepted: parsing ends
\* in a cut error, and where the lexer knows every token of the arguments
\* that error is the validation error of the call, no later alternative
\* replacing it.
C15_UndefinedOrArityIsFatal ==
    (/\ pc = "parsed"
     /\ query.form \in {"test", "not", "left", "right"}
     /\ FirstCallError(query) # None) =>
        /\ parsed[1] = "Cut"
        /\ (\A i \in 1..Len(query.args) : query.args[i] # "@..a") =>
              parsed = Cut(FirstCallError(query)[1])

\* `$[?unknown(@)]` under the built-in registry, and `$[?3 < length(@,'a')]`
C15_Witness ==
    /\ pc = "parsed"
    /\ \/ /\ query.form = "test"
          /\ query.name = "unknown"
          /\ query.args = <<"@">>
          /\ parsed = Cut(Undefined("unknown"))
       \/ /\ query.form = "right"
          /\ query.name = "length"
          /\ query.args = <<"@", "'a'">>
          /\ parsed = Cut(NumberOfArgsMismatch("length", 2))

\* the sources with a query that is not singular where a singular query is
\* tried first: the only argument of count, compared, or an existence test
NonSingularFirst(s) ==
    /\ Len(s.args) = 1
    /\ ArgTable[s.args[1]].kind = "NodeList"
    /\ \/ s.form = "exist"
       \/ s.form \in {"left", "right"} /\ s.name = "count"

\* the query of a source of NonSingularFirst, as the parser recorded it:
\* None if it was recorded as anything but a node-list query
RecordedQuery(s, q) ==
    LET test == TestOf(q)
        call == IF s.form = "left" THEN test.left ELSE test.right
    IN  IF s.form = "exist"
        THEN (IF test.k = "Exist" THEN Some(test.q) ELSE None)
        ELSE IF test.k = "Relation" /\ call.k = "FunctionExpr" /\ call.args[1].k = "FilterQuery"
        THEN Some(call.args[1].q)
        ELSE None

\* C16: a query that is not singular (descendant, wildcard, slice, filter
\* or multi-selector segment), written where a singular query is tried
\* first, is accepted through the node-list alternative: as the argument
\* of count it is recorded as a node-list query, alone it is an existence
\* test.
C16_NonSingularRecovers ==
    (pc = "parsed" /\ NonSingularFirst(query)) =>
        /\ IsOk(parsed)
        /\ RecordedQuery(query, parsed[2]) # None
        /\ RecordedQuery(query, parsed[2])[1].kind = "Current"
        /\ ~IsOk(SingularQueryTryFrom(RecordedQuery(query, parsed[2])[1]))

\* the integers written in the sources that lie outside the safe range
UnsafeTexts ==
    {IntDisplay(n) : n \in {MAX + 1, MIN - 1, I64_MAX, I64_MIN}}
    \cup {NatDisplay(I64_MAX + 1), <<Ch["-"]>> \o NatDisplay(I64_MAX + 2)}

\* the selector of a source with one
SelectorOf(q) == q.segments[1].segment.selectors[1]

\* C17: a query with an index, or a slice start, end or step, outside
\* [-(2^53)+1, (2^53)-1] is rejected with a parse error, so every index and
\* slice parameter of a parsed query is inside that range.
C17_SafeIntegers ==
    (pc = "parsed" /\ query.form \in {"index", "slice", "slice2"}) =>
        /\ (\E k \in 1..Len(query.ints) : query.ints[k] \in UnsafeTexts) =>
              parsed[1] = "Cut"
        /\ IsOk(parsed) =>
              /\ SelectorOf(parsed[2]).k = "index" =>
                    check_i64_is_valid(SelectorOf(parsed[2]).index)
              /\ SelectorOf(parsed[2]).k = "slice" =>
                    \A o \in {SelectorOf(parsed[2]).start, SelectorOf(parsed[2]).end,
                              SelectorOf(parsed[2]).step} :
                        o = None \/ check_i64_is_valid(o[1])

(***************************************************************************)
(* Specification SpecShape: a root query of one or two child segments, the *)
(* last of one selector, applied to values whose shape may not fit it.     *)
(***************************************************************************)
\* {"a": null, "b": [null]}
NullExample == <<Obj(<<"a", "b">>, <<2, 3>>), NullLeaf, Arr(<<4>>), NullLeaf>>

ShapeTrees == ExistTrees \cup {NullExample, ExampleTree}

\* .a  .d  ['j']  [0]  [-1]  [2]  [:]  [1:]  .*  [*]  [?@.a]  [?@==1]
ShapeSegments ==
    { DotName("a"), DotName("d"), LongHand(<<Name("j")>>),
      LongHand(<<Index(0)>>), LongHand(<<Index(0 - 1)>>), LongHand(<<Index(2)>>),
      LongHand(<<Slice(None, None, None)>>), LongHand(<<Slice(Some(1), None, None)>>),
      WildcardSegment, LongHand(<<Wildcard>>),
      LongHand(<<FilterExists>>), LongHand(<<FilterEqual>>) }

\* .a  .b  .d  [0]
ShapePrefixes == {DotName("a"), DotName("b"), DotName("d"), LongHand(<<Index(0)>>)}

ShapeQueries ==
    {Query("Root", <<QuerySegment("Child", s)>>) : s \in ShapeSegments}
    \cup {Query("Root", <<QuerySegment("Child", p), QuerySegment("Child", s)>>) :
            p \in ShapePrefixes, s \in ShapeSegments}

InitShape ==
    /\ overflow_checks = TRUE
    /\ tree \in ShapeTrees
    /\ cur = 1
    /\ query \in ShapeQueries
    /\ nodes = <<>>
    /\ located = <<>>
    /\ outcome = NoOutcome
    /\ text = <<>>
    /\ parsed = <<>>
    /\ pc = "start"

SpecShape == InitShape /\ [][NextQuery]_vars

\* the selector of a segment of ShapeSegments or ShapePrefixes
SegmentSelector(seg) ==
    CASE seg.k = "DotName" -> Name(seg.name)
      [] seg.k = "Wildcard" -> Wildcard
      [] seg.k = "LongHand" -> seg.selectors[1]

\* the member values named n of the object v, the elements at index i of
\* the array v: at most one, none for a value of another shape
MemberNamed(T, v, n) ==
    IF T[v].t # "obj" THEN <<>>
    ELSE SelectSeq(T[v].kids, LAMBDA c : \E j \in 1..Len(T[v].kids) :
                                            T[v].kids[j] = c /\ T[v].keys[j] = n)

ElementAt(T, v, i) ==
    IF T[v].t # "arr" THEN <<>>
    ELSE IF 0 <= i /\ i < Len(T[v].kids) THEN <<T[v].kids[i + 1]>>
    ELSE IF i < 0 /\ 0 - i <= Len(T[v].kids) THEN <<T[v].kids[Len(T[v].kids) + i + 1]>>
    ELSE <<>>

\* the values that the last segment of the query is applied to
ShapeTargets(T, q) ==
    IF Len(q.segments) = 1 THEN <<1>>
    ELSE LET s == SegmentSelector(q.segments[1].segment)
         IN  IF s.k = "name" THEN MemberNamed(T, 1, s.name) ELSE ElementAt(T, 1, s.index)

\* the value v has not the shape that the selector s needs
WrongShape(T, v, s) ==
    CASE s.k = "name" -> MemberNamed(T, v, s.name) = <<>>
      [] s.k = "index" -> ElementAt(T, v, s.index) = <<>>
      [] s.k = "slice" -> T[v].t # "arr"
      [] s.k \in {"wildcard", "filter"} -> T[v].t \notin {"arr", "obj"}

\* C18: a selector applied to a value of the wrong shape selects nothing
\* and fails not: a name on a non-object or an object without the key, an
\* index on a non-array or out of range, a slice on a non-array, a wildcard
\* or a filter on a primitive; a member is selected whatever its value,
\* null included.
C18_WrongShapeSelectsNothing ==
    LET s == SegmentSelector(LastSegment(query).segment)
        targets == ShapeTargets(tree, query)
    IN  /\ (pc # "start" /\ \A j \in 1..Len(targets) : WrongShape(tree, targets[j], s)) =>
              nodes = <<>>
        /\ (pc = "done" /\ \A j \in 1..Len(targets) : WrongShape(tree, targets[j], s)) =>
              located = <<>>
        /\ (pc # "start" /\ s.k = "name" /\ Len(targets) = 1) =>
              nodes = MemberNamed(tree, targets[1], s.name)

\* `$.a.d` on {"a": null, "b": [null]}: the name selector met null
C18_Witness ==
    /\ pc = "done"
    /\ tree = NullExample
    /\ query = Query("Root", <<QuerySegment("Child", DotName("a")),
                               QuerySegment("Child", DotName("d"))>>)
    /\ nodes = <<>>
    /\ located = <<>>

(***************************************************************************)
(* spec/function/value.rs, spec/function/expr.rs, spec/function/builtin.rs: *)
(* the values of function expressions and the built-in evaluators.  A call *)
(* that panics yields PanicValue.                                          *)
(***************************************************************************)
PanicValue == [k |-> "Panic"]

\* SPathValue::Nodes, SPathValue::Logical
SPathNodes(list) == [k |-> "Nodes", nodes |-> list]
SPathLogical(b) == [k |-> "Logical", val |-> b]

\* T::from_literal(Literal::Int(len)) as SPathValue::Value
SPathInt(len) == SPathValueOf(Literal("num", len))

\* SPathValue::into_nodes, SPathValue::into_value
into_nodes(v) == IF v.k = "Nodes" THEN Some(v.nodes) ELSE None
into_value(v) == IF v.k \in {"Value", "Node", "Nothing"} THEN Some(v) ELSE None

\* the bytes of a character in UTF-8
len_utf8(c) == IF c < 128 THEN 1 ELSE IF c < 2048 THEN 2 ELSE IF c < 65536 THEN 3 ELSE 4

\* str::len: the bytes of a string in UTF-8
RECURSIVE str_len(_)
str_len(chars) == IF chars = <<>> THEN 0 ELSE len_utf8(Head(chars)) + str_len(Tail(chars))

\* a length that counts the bytes of a string, not its characters
value_len_Bytes(T, v) ==
    IF v.t = "str" THEN Some(str_len(v.val))
    ELSE IF v.k = "Node" /\ v.t \in {"arr", "obj"} THEN Some(Len(T[v.ref].kids))
    ELSE None

\* value_len of length: the characters of a string, the elements of an
\* array, the members of an object
value_len(T, v) ==
    IF v.t = "str" THEN Some(Len(v.val))
    ELSE IF v.k = "Node" /\ v.t \in {"arr", "obj"} THEN Some(Len(T[v.ref].kids))
    ELSE None

\* the evaluator of length
length_evaluator(T, args) ==
    IF Len(args) # 1 THEN PanicValue
    ELSE LET popped == into_value(args[Len(args)])
             len == IF popped[1].k = "Nothing" THEN None ELSE value_len(T, popped[1])
         IN  IF popped = None THEN PanicValue
             ELSE IF len = None THEN Nothing
             ELSE SPathInt(len[1])

\* the evaluator of count
count_evaluator(T, args) ==
    IF Len(args) # 1 THEN PanicValue
    ELSE LET nodes_ == into_nodes(args[Len(args)])
         IN  IF nodes_ = None THEN PanicValue
             ELSE SPathInt(Len(nodes_[1]))

\* the evaluator of value
value_evaluator(T, args) ==
    IF Len(args) # 1 THEN PanicValue
    ELSE LET nodes_ == into_nodes(args[Len(args)])
         IN  IF nodes_ = None THEN PanicValue
             ELSE IF Len(nodes_[1]) # 1 THEN Nothing
             ELSE SPathNode(T, nodes_[1][1])

\* Function::evaluate
FunctionEvaluate(T, function, args) ==
    CASE function.name = "length" -> length_evaluator(T, args)
      [] function.name = "count" -> count_evaluator(T, args)
      [] function.name = "value" -> value_evaluator(T, args)

RECURSIVE FunctionExprEvaluate(_, _, _, _, _)

\* FunctionExprArg::evaluate
FunctionExprArgEvaluate(T, arg, current, root, registry) ==
    CASE arg.k = "Literal" -> SPathValueOf(arg.lit)
      [] arg.k = "SingularQuery" ->
            LET n == eval_query(T, arg.q, current, root)
            IN  IF n = None THEN Nothing ELSE SPathNode(T, n[1])
      [] arg.k = "FilterQuery" ->
            LET list(r) == IF Panicked(r) THEN PanicValue ELSE SPathNodes(r)
            IN  list(QueryQuery(T, arg.q, current, root))
      [] arg.k = "LogicalExpr" ->
            LET logical(o) == IF o = "panic" THEN PanicValue ELSE SPathLogical(o = "true")
            IN  logical(LogicalOrTestFilter(T, arg.e, current, root))
      [] arg.k = "FunctionExpr" -> FunctionExprEvaluate(T, arg.f, current, root, registry)

\* FunctionExpr::evaluate
FunctionExprEvaluate(T, f, current, root, registry) ==
    LET call(args) ==
            IF \E j \in 1..Len(args) : args[j] = PanicValue THEN PanicValue
            ELSE IF RegistryGet(registry, f.name) = None THEN PanicValue
            ELSE FunctionEvaluate(T, RegistryGet(registry, f.name)[1], args)
    IN  call([j \in 1..Len(f.args) |->
                 FunctionExprArgEvaluate(T, f.args[j], current, root, registry)])

\* the value of a function expression used as a comparable: the value or
\* the node it returns, or Nothing
FunctionComparableValue(T, f, current, root, registry) ==
    FunctionExprEvaluate(T, f, current, root, registry)

\* ComparisonExpr::test_filter with a function expression on the left and
\* a literal on the right
FunctionComparisonTestFilter(T, e, current, root, registry) ==
    LET test(left) ==
            IF left = PanicValue THEN "panic"
            ELSE CompareValues(e.op, left, as_value(T, e.right, current, root))
    IN  test(FunctionComparableValue(T, e.left, current, root, registry))

\* Filter::query for a filter of one such comparison
FunctionFilterQuery(T, e, current, root, registry) ==
    IF as_array(T, current) # None \/ as_object(T, current) # None
    THEN LET kids == T[current].kids
             pick(tests) ==
                 IF \E j \in 1..Len(kids) : tests[j] = "panic" THEN <<PANIC>>
                 ELSE PickPositions(kids, {j \in 1..Len(kids) : tests[j] = "true"}, 1)
         IN  pick([j \in 1..Len(kids) |->
                      FunctionComparisonTestFilter(T, e, kids[j], root, registry)])
    ELSE <<>>

(***************************************************************************)
(* Specification SpecFunction: a validated call of length, count or value  *)
(* evaluated at a node of a value, then the filter `[?call < 3]` applied   *)
(* to that node.                                                           *)
(***************************************************************************)
CharsLeaf(labels) == Leaf("str", Str(labels))

\* ["", "ab", "abc", "é", 1, true, null, [1, 1, 1], {"a": 1}, [[], [], [], []]]
LengthExample ==
    << Arr(<<2, 3, 4, 5, 6, 7, 8, 9, 13, 15>>),
       CharsLeaf(<<>>), CharsLeaf(<<"a", "b">>), CharsLeaf(<<"a", "b", "c">>),
       Leaf("str", <<233>>), NumberLeaf(1), Leaf("bool", 1), NullLeaf,
       Arr(<<10, 11, 12>>), NumberLeaf(1), NumberLeaf(1), NumberLeaf(1),
       Obj(<<"a">>, <<14>>), NumberLeaf(1),
       Arr(<<16, 17, 18, 19>>), Arr(<<>>), Arr(<<>>), Arr(<<>>), Arr(<<>>) >>

\* {"a": "éé", "j": [1]}
MemberExample ==
    <<Obj(<<"a", "j">>, <<2, 3>>), Leaf("str", <<233, 233>>), Arr(<<4>>), NumberLeaf(1)>>

FunctionTrees == ExistTrees \cup {LengthExample, MemberExample, ExampleTree, NullExample}

CurrentQuery(segs) == Query("Current", [j \in 1..Len(segs) |-> QuerySegment("Child", segs[j])])

\* @   @.a   $.a   @[0]
SingularArgs ==
    { SingularQuery("Relative", <<>>), SingularQuery("Relative", <<Name("a")>>),
      SingularQuery("Absolute", <<Name("a")>>), SingularQuery("Relative", <<Index(0)>>) }

\* @.*   @[0:]   @['a', 0]   @..a   @[?@.a]   @.a.*   and, built as queries, @ and @.a
QueryArgs ==
    { CurrentQuery(<<WildcardSegment>>),
      CurrentQuery(<<LongHand(<<Slice(Some(0), None, None)>>)>>),
      CurrentQuery(<<LongHand(<<Name("a"), Index(0)>>)>>),
      Query("Current", <<QuerySegment("Descendant", DotName("a"))>>),
      CurrentQuery(<<LongHand(<<FilterExists>>)>>),
      CurrentQuery(<<DotName("a"), WildcardSegment>>),
      CurrentQuery(<<>>),
      CurrentQuery(<<DotName("a")>>) }

\* 'ab'   'é'   1   true   null
LiteralArgs ==
    { Literal("str", Str(<<"a", "b">>)), Literal("str", <<233>>), Literal("num", 1),
      Literal("bool", 1), Literal("null", 0) }

BaseArgs ==
    {ArgLiteral(l) : l \in LiteralArgs}
    \cup {ArgSingularQuery(q) : q \in SingularArgs}
    \cup {ArgFilterQuery(q) : q \in QueryArgs}

EvaluatedNames == {"length", "count", "value"}

\* the calls of one argument that Function::validate accepts
ValidCalls(args) ==
    {FunctionExpr(n, <<a>>, "Value") : <<n, a>> \in
        {na \in EvaluatedNames \X args :
            FunctionValidate(RegistryGet(BuiltinFunctionRegistry, na[1])[1], <<na[2]>>,
                             BuiltinFunctionRegistry) = <<"Ok">>}}

\* calls on the base arguments and calls on such calls
FunctionCalls == ValidCalls(BaseArgs) \cup ValidCalls({ArgFunctionExpr(f) : f \in ValidCalls(BaseArgs)})

InitFunction ==
    /\ overflow_checks = TRUE
    /\ tree \in FunctionTrees
    /\ cur \in {n \in 1..Len(tree) : n <= 2}
    /\ query \in FunctionCalls
    /\ nodes = <<>>
    /\ located = <<>>
    /\ outcome = NoOutcome
    /\ text = <<>>
    /\ parsed = <<>>
    /\ pc = "start"

EvaluateStep ==
    /\ pc = "start"
    /\ outcome' = FunctionExprEvaluate(tree, query, cur, 1, BuiltinFunctionRegistry)
    /\ pc' = "evaluated"
    /\ UNCHANGED <<overflow_checks, tree, cur, query, nodes, located, text, parsed>>

FunctionFilterStep ==
    /\ pc = "evaluated"
    /\ nodes' = FunctionFilterQuery(tree, Relation(query, "LessThan", Literal("num", 3)),
                                    cur, 1, BuiltinFunctionRegistry)
    /\ pc' = "done"
    /\ UNCHANGED <<overflow_checks, tree, cur, query, located, outcome, text, parsed>>

NextFunction == EvaluateStep \/ FunctionFilterStep

SpecFunction == InitFunction /\ [][NextFunction]_vars

\* the number of nodes that a query argument selects at a node
SelectedCount(T, arg, current) ==
    IF arg.k = "SingularQuery"
    THEN (IF eval_query(T, arg.q, current, 1) = None THEN 0 ELSE 1)
    ELSE Len(QueryQuery(T, arg.q, current, 1))

\* C19: for every query argument that validation accepts for count, a
\* query that is not singular or a singular one, count(arg) evaluated at
\* any node returns the number of nodes the argument selects there as an
\* Int value, and raises no error.
C19_CountOfArgument ==
    (/\ pc # "start"
     /\ query.name = "count"
     /\ query.args[1].k \in {"SingularQuery", "FilterQuery"}) =>
        outcome = SPathInt(SelectedCount(tree, query.args[1], cur))

\* the value of the argument of the call
ArgumentValue == FunctionExprArgEvaluate(tree, query.args[1], cur, 1, BuiltinFunctionRegistry)

\* the Int length of a string, an array or an object; Nothing otherwise
ExpectedLength(T, v) ==
    CASE v.k = "Nothing" -> Nothing
      [] v.k # "Nothing" /\ v.t = "str" -> SPathInt(Len(v.val))
      [] v.k = "Node" /\ v.t \in {"arr", "obj"} -> SPathInt(Len(T[v.ref].kids))
      [] OTHER -> Nothing

\* length(@), the call of `$[?length(@) < 3]`
LengthOfCurrent ==
    FunctionExpr("length", <<ArgSingularQuery(SingularQuery("Relative", <<>>))>>, "Value")

\* the children of the current node
CurrentKids == IF tree[cur].t \in {"arr", "obj"} THEN tree[cur].kids ELSE <<>>

\* C20: length returns the Int number of characters of a string, of
\* elements of an array, of members of an object, and Nothing for any other
\* value and for Nothing; `[?length(@) < 3]` selects, in order, exactly the
\* strings, arrays and objects of a length below 3.
C20_LengthOfValue ==
    /\ (/\ pc # "start"
        /\ query.name = "length"
        /\ ArgumentValue.k \in {"Value", "Node", "Nothing"}) =>
            outcome = ExpectedLength(tree, ArgumentValue)
    /\ (pc = "done" /\ query = LengthOfCurrent) =>
            nodes = KeepInOrder(CurrentKids,
                        {c \in Range(CurrentKids) :
                            \/ tree[c].t = "str" /\ Len(tree[c].val) < 3
                            \/ tree[c].t \in {"arr", "obj"} /\ Len(tree[c].kids) < 3})

\* `[?length(@) < 3]` on ["", "ab", "abc", "é", 1, true, null, [1, 1, 1],
\* {"a": 1}, [[], [], [], []]] selected "", "ab", "é" and {"a": 1}
C20_Witness ==
    /\ pc = "done"
    /\ tree = LengthExample
    /\ cur = 1
    /\ query = LengthOfCurrent
    /\ outcome = SPathInt(10)
    /\ nodes = <<2, 3, 5, 13>>

(***************************************************************************)
(* node.rs and path.rs: the accessors of NodeList and LocatedNodeList, the *)
(* order of normalized paths and LocatedNodeList::dedup.                   *)
(***************************************************************************)
AtMostOneError(n) == [error |-> "AtMostOneError", n |-> n]
ExactlyOneError_Empty == [error |-> "Empty"]
ExactlyOneError_MoreThanOne(n) == [error |-> "MoreThanOne", n |-> n]
ResultErr(e) == <<"Err", e>>

\* an accessor that refuses a list of one node too
NodeListAtMostOne_Strict(list) ==
    IF Len(list) >= 1 THEN ResultErr(AtMostOneError(Len(list)))
    ELSE Ok(IF list = <<>> THEN None ELSE Some(list[1]))

\* NodeList::at_most_one
NodeListAtMostOne(list) ==
    IF Len(list) > 1 THEN ResultErr(AtMostOneError(Len(list)))
    ELSE Ok(IF list = <<>> THEN None ELSE Some(list[1]))

\* NodeList::exactly_one
NodeListExactlyOne(list) ==
    IF Len(list) > 1 THEN ResultErr(ExactlyOneError_MoreThanOne(Len(list)))
    ELSE IF list = <<>> THEN ResultErr(ExactlyOneError_Empty)
    ELSE Ok(list[1])

\* LocatedNodeList::at_most_one: pop() of a list of at most one entry
LocatedAtMostOne(list) ==
    IF Len(list) > 1 THEN ResultErr(AtMostOneError(Len(list)))
    ELSE Ok(IF list = <<>> THEN None ELSE Some(list[Len(list)]))

\* LocatedNodeList::exactly_one
LocatedExactlyOne(list) ==
    IF list = <<>> THEN ResultErr(ExactlyOneError_Empty)
    ELSE IF Len(list) > 1 THEN ResultErr(ExactlyOneError_MoreThanOne(Len(list)))
    ELSE Ok(list[Len(list)])

\* Ord of integers, and <str as Ord>::cmp: the bytes in order, a prefix first
IntCmp(a, b) == IF a < b THEN "Less" ELSE IF a > b THEN "Greater" ELSE "Equal"

RECURSIVE StrCmp(_, _)
StrCmp(a, b) ==
    IF a = <<>> /\ b = <<>> THEN "Equal"
    ELSE IF a = <<>> THEN "Less"
    ELSE IF b = <<>> THEN "Greater"
    ELSE IF Head(a) # Head(b) THEN IntCmp(Head(a), Head(b))
    ELSE StrCmp(Tail(a), Tail(b))

\* an order of path elements that puts names before indices
PathElementCmp_NameFirst(a, b) ==
    CASE a.k = "Name" /\ b.k = "Name" -> StrCmp(a.name, b.name)
      [] a.k = "Index" /\ b.k = "Index" -> IntCmp(a.index, b.index)
      [] a.k = "Name" /\ b.k = "Index" -> "Less"
      [] a.k = "Index" /\ b.k = "Name" -> "Greater"

\* <PathElement as Ord>::cmp
PathElementCmp(a, b) ==
    CASE a.k = "Name" /\ b.k = "Name" -> StrCmp(a.name, b.name)
      [] a.k = "Index" /\ b.k = "Index" -> IntCmp(a.index, b.index)
      [] a.k = "Name" /\ b.k = "Index" -> "Greater"
      [] a.k = "Index" /\ b.k = "Name" -> "Less"

\* the derived Ord of NormalizedPath: the order of Vec<PathElement>
RECURSIVE NormalizedPathCmp(_, _)
NormalizedPathCmp(a, b) ==
    IF a = <<>> /\ b = <<>> THEN "Equal"
    ELSE IF a = <<>> THEN "Less"
    ELSE IF b = <<>> THEN "Greater"
    ELSE IF PathElementCmp(Head(a), Head(b)) # "Equal" THEN PathElementCmp(Head(a), Head(b))
    ELSE NormalizedPathCmp(Tail(a), Tail(b))

\* the order of located nodes: that of their paths
LocatedNodeCmp(a, b) == NormalizedPathCmp(a.loc, b.loc)

\* Vec::sort, which is stable: e goes after the entries not greater than it
RECURSIVE SortInsert(_, _)
SortInsert(sorted, e) ==
    IF sorted = <<>> THEN <<e>>
    ELSE IF LocatedNodeCmp(e, Head(sorted)) = "Less" THEN <<e>> \o sorted
    ELSE <<Head(sorted)>> \o SortInsert(Tail(sorted), e)

RECURSIVE VecSort(_, _)
VecSort(list, sorted) ==
    IF list = <<>> THEN sorted ELSE VecSort(Tail(list), SortInsert(sorted, Head(list)))

\* Vec::dedup: an entry equal to the one kept before it is dropped
RECURSIVE VecDedup(_, _)
VecDedup(list, kept) ==
    IF list = <<>> THEN kept
    ELSE IF kept # <<>> /\ kept[Len(kept)] = Head(list) THEN VecDedup(Tail(list), kept)
    ELSE VecDedup(Tail(list), Append(kept, Head(list)))

\* LocatedNodeList::dedup / dedup_in_place
dedup(list) == VecDedup(VecSort(list, <<>>), <<>>)

(***************************************************************************)
(* Specification SpecNodeList: a located node list of up to MaxLen entries *)
(* and the node list of its nodes; at_most_one and exactly_one on both,    *)
(* then dedup, twice.                                                      *)
(***************************************************************************)
\* $   $[0]   $[1]   $[10]   $['a']   $['ab']   $['b']   $[0]['a']   $['a'][0]   $[0][0]
ListPaths ==
    { <<>>, <<PathIndex(0)>>, <<PathIndex(1)>>, <<PathIndex(10)>>,
      <<PathName(Str(<<"a">>))>>, <<PathName(Str(<<"a", "b">>))>>,
      <<PathName(Str(<<"b">>))>>,
      <<PathIndex(0), PathName(Str(<<"a">>))>>, <<PathName(Str(<<"a">>)), PathIndex(0)>>,
      <<PathIndex(0), PathIndex(0)>> }

\* the node at a path: one node for one path
NodeAtPath(loc) == CHOOSE n \in 1..Cardinality(ListPaths) :
                       Cardinality({l \in ListPaths : NormalizedPathCmp(l, loc) = "Less"}) = n - 1

ListEntries == {LocatedNode(loc, NodeAtPath(loc)) : loc \in ListPaths}

InitNodeList ==
    /\ overflow_checks = TRUE
    /\ tree = <<NullLeaf>>
    /\ cur = 1
    /\ query \in SeqsUpTo(ListEntries, MaxLen)
    /\ nodes = LocatedNodes(query)
    /\ located = query
    /\ outcome = NoOutcome
    /\ text = <<>>
    /\ parsed = <<>>
    /\ pc = "start"

AtMostOneStep ==
    /\ pc = "start"
    /\ outcome' = [list |-> NodeListAtMostOne(nodes), located |-> LocatedAtMostOne(located)]
    /\ pc' = "at_most_one"
    /\ UNCHANGED <<overflow_checks, tree, cur, query, nodes, located, text, parsed>>

ExactlyOneStep ==
    /\ pc = "at_most_one"
    /\ parsed' = [list |-> NodeListExactlyOne(nodes), located |-> LocatedExactlyOne(located)]
    /\ pc' = "exactly_one"
    /\ UNCHANGED <<overflow_checks, tree, cur, query, nodes, located, outcome, text>>

DedupStep ==
    /\ pc \in {"exactly_one", "dedup"}
    /\ located' = dedup(located)
    /\ pc' = IF pc = "exactly_one" THEN "dedup" ELSE "dedup_again"
    /\ UNCHANGED <<overflow_checks, tree, cur, query, nodes, outcome, text, parsed>>

NextNodeList == AtMostOneStep \/ ExactlyOneStep \/ DedupStep

SpecNodeList == InitNodeList /\ [][NextNodeList]_vars

\* C21: for a list of n nodes at_most_one returns no node for n = 0, the
\* node for n = 1 and AtMostOneError(n) for n > 1; exactly_one returns the
\* node for n = 1, Empty for n = 0 and MoreThanOne(n) for n > 1; NodeList
\* and LocatedNodeList agree.
C21_OneNodeAccessors ==
    LET n == Len(query)
    IN  /\ pc # "start" =>
              /\ outcome.list = IF n = 0 THEN Ok(None)
                                ELSE IF n = 1 THEN Ok(Some(query[1].node))
                                ELSE ResultErr(AtMostOneError(n))
              /\ outcome.located = IF n = 0 THEN Ok(None)
                                   ELSE IF n = 1 THEN Ok(Some(query[1]))
                                   ELSE ResultErr(AtMostOneError(n))
        /\ pc \notin {"start", "at_most_one"} =>
              /\ parsed.list = IF n = 0 THEN ResultErr(ExactlyOneError_Empty)
                               ELSE IF n = 1 THEN Ok(query[1].node)
                               ELSE ResultErr(ExactlyOneError_MoreThanOne(n))
              /\ parsed.located = IF n = 0 THEN ResultErr(ExactlyOneError_Empty)
                                  ELSE IF n = 1 THEN Ok(query[1])
                                  ELSE ResultErr(ExactlyOneError_MoreThanOne(n))

\* both accessors were applied to a list of one node and returned it
C21_Witness ==
    /\ pc = "exactly_one"
    /\ Len(query) = 1
    /\ outcome.list = Ok(Some(query[1].node))
    /\ parsed.located = Ok(query[1])

\* path a is before path b: at the first element that differs an index is
\* before a name, a smaller index before a larger, a name before one that
\* follows it in string order; a proper prefix is before its extensions
RECURSIVE PathBefore(_, _)
PathBefore(a, b) ==
    IF b = <<>> THEN FALSE
    ELSE IF a = <<>> THEN TRUE
    ELSE IF Head(a) = Head(b) THEN PathBefore(Tail(a), Tail(b))
    ELSE IF Head(a).k # Head(b).k THEN Head(a).k = "Index"
    ELSE IF Head(a).k = "Index" THEN Head(a).index < Head(b).index
    ELSE StrCmp(Head(a).name, Head(b).name) = "Less"

\* C22: after dedup the list is sorted by normalized path, an Index element
\* before a Name element, no two entries have the same path, the entries
\* are those of the original list; a second dedup changes nothing.
C22_DedupSortsAndKeeps ==
    /\ pc \in {"dedup", "dedup_again"} =>
          /\ \A i \in 1..Len(located) : \A j \in 1..Len(located) :
                i < j => PathBefore(located[i].loc, located[j].loc)
          /\ Range(located) = Range(query)
    /\ pc = "dedup_again" => located = dedup(query)

\* [$['a'], $[10], $['a']] or a like list became [$[10], $['a']]
C22_Witness ==
    /\ pc = "dedup_again"
    /\ Len(query) = 3
    /\ Len(located) = 2
    /\ located[1].loc = <<PathIndex(10)>>
    /\ located[2].loc = <<PathName(Str(<<"a">>))>>

(***************************************************************************)
(* path.rs: Display of PathElement and of NormalizedPath.                  *)
(***************************************************************************)
\* {:x} of a value below 16
LowerHexDigit(d) == IF d < 10 THEN 48 + d ELSE 97 + (d - 10)

\* <PathElement as Display>::fmt, one character of a name
PathCharDisplay(c) ==
    CASE c = 8 -> <<Ch["\\"], Ch["b"]>>
      [] c = 12 -> <<Ch["\\"], Ch["f"]>>
      [] c = 10 -> <<Ch["\\"], Ch["n"]>>
      [] c = 13 -> <<Ch["\\"], Ch["r"]>>
      [] c = 9 -> <<Ch["\\"], Ch["t"]>>
      [] c = 39 -> <<Ch["\\"], Ch["'"]>>
      [] c = 92 -> <<Ch["\\"]>>
      [] c \in (0..7) \cup {11, 14, 15} ->
            <<Ch["\\"], Ch["u"], Ch["0"], Ch["0"], Ch["0"], LowerHexDigit(c)>>
      [] OTHER -> <<c>>

\* <PathElement as Display>::fmt
PathElementDisplay(elem) ==
    IF elem.k = "Name"
    THEN Flatten([i \in 1..Len(elem.name) |-> PathCharDisplay(elem.name[i])])
    ELSE NatDisplay(elem.index)

\* <NormalizedPath as Display>::fmt: the name is written as the str it is
NormalizedPathDisplay(path) ==
    <<Ch["$"]>>
    \o Flatten([i \in 1..Len(path) |->
           IF path[i].k = "Name"
           THEN <<Ch["["], Ch["'"]>> \o path[i].name \o <<Ch["'"], Ch["]"]>>
           ELSE <<Ch["["]>> \o NatDisplay(path[i].index) \o <<Ch["]"]>>])

(***************************************************************************)
(* Specification SpecPathDisplay: a normalized path of up to MaxElems      *)
(* elements is formatted, as a whole and element by element.               *)
(***************************************************************************)
\* a letter, the apostrophe, the backslash, a tab, a vertical tab (U+000B),
\* and the control characters U+0010 and U+001F
PathNameChars == {Ch["a"], Ch["'"], Ch["\\"], Ch["\t"], 11, 16, 31}

DisplayElements ==
    {PathIndex(0), PathIndex(10)}
    \cup {PathName(n) : n \in SeqsUpTo(PathNameChars, MaxNameLen)}

InitPathDisplay ==
    /\ overflow_checks = TRUE
    /\ tree = <<NullLeaf>>
    /\ cur = 1
    /\ query \in SeqsUpTo(DisplayElements, MaxElems)
    /\ nodes = <<>>
    /\ located = <<>>
    /\ outcome = NoOutcome
    /\ text = <<>>
    /\ parsed = <<>>
    /\ pc = "start"

PathDisplayStep ==
    /\ pc = "start"
    /\ text' = NormalizedPathDisplay(query)
    /\ parsed' = [i \in 1..Len(query) |-> PathElementDisplay(query[i])]
    /\ pc' = "displayed"
    /\ UNCHANGED <<overflow_checks, tree, cur, query, nodes, located, outcome>>

NextPathDisplay == PathDisplayStep

SpecPathDisplay == InitPathDisplay /\ [][NextPathDisplay]_vars

\* the escape the normalized-path syntax gives a character of a name
NormalEscape(c) ==
    CASE c = 8 -> <<Ch["\\"], Ch["b"]>>
      [] c = 12 -> <<Ch["\\"], Ch["f"]>>
      [] c = 10 -> <<Ch["\\"], Ch["n"]>>
      [] c = 13 -> <<Ch["\\"], Ch["r"]>>
      [] c = 9 -> <<Ch["\\"], Ch["t"]>>
      [] c = 39 -> <<Ch["\\"], Ch["'"]>>
      [] c \in 0..31 /\ c \notin {8, 9, 10, 12, 13} ->
            <<Ch["\\"], Ch["u"], Ch["0"], Ch["0"], LowerHexDigit(c \div 16), LowerHexDigit(c % 16)>>

\* the text a name element must be written as: escapes for the listed
\* characters, any other character as itself
RECURSIVE WrittenName(_)
WrittenName(name) ==
    IF name = <<>> THEN <<>>
    ELSE (IF Head(name) \in (0..31) \cup {39} THEN NormalEscape(Head(name)) ELSE <<Head(name)>>)
         \o WrittenName(Tail(name))

\* C23: a NormalizedPath is written as $ followed by [n] for an index and
\* ['name'] for a name, where inside the quotes \b \f \n \r \t \' stand for
\* backspace, form feed, line feed, carriage return, tab and apostrophe and
\* \uXXXX for every other control character U+0000..U+001F: no raw
\* apostrophe and no raw control character is between the quotes.
C23_PathDisplayEscapes ==
    pc = "displayed" =>
        text = <<Ch["$"]>>
               \o Flatten([i \in 1..Len(query) |->
                      IF query[i].k = "Name"
                      THEN <<Ch["["], Ch["'"]>> \o WrittenName(query[i].name) \o <<Ch["'"], Ch["]"]>>
                      ELSE <<Ch["["]>> \o NatDisplay(query[i].index) \o <<Ch["]"]>>])

(***************************************************************************)
(* Specification SpecUnescape: run_parser on the text of a query with one  *)
(* bracketed string literal, $['...'] or $["..."], whose body is up to     *)
(* MaxElems pieces: characters, quotes and escapes, valid or not.          *)
(***************************************************************************)
\* a letter, a slash, the two quotes, a lone backslash, the one-letter
\* escapes, and \u escapes: a letter, the first and the last surrogate, the
\* code point after them, two digits only, a digit that is not hexadecimal,
\* no digit at all
CharPieces ==
    {Str(<<"a">>), <<47>>, Str(<<"'">>), Str(<<"\"">>), Str(<<"\\">>),
     Str(<<"\\", "b">>), Str(<<"\\", "f">>), Str(<<"\\", "n">>), Str(<<"\\", "r">>),
     Str(<<"\\", "t">>), Str(<<"\\", "\\">>), <<Ch["\\"], 47>>,
     Str(<<"\\", "'">>), Str(<<"\\", "\"">>),
     Str(<<"\\", "u", "0", "0", "6", "1">>), Str(<<"\\", "u", "d", "8", "0", "0">>),
     Str(<<"\\", "u", "d", "f", "f", "f">>), Str(<<"\\", "u", "e", "0", "0", "0">>),
     Str(<<"\\", "u", "4", "1">>), Str(<<"\\", "u", "0", "0", "4", "g">>),
     Str(<<"\\", "u">>)}

\* \x escapes of two digits, of one, of a digit that is not hexadecimal, and
\* octal escapes: NUL, a letter, the code points past U+10FFFF and of the
\* first surrogate, the largest u32, 2^32 + 65 and 2^36 - 1
BytePieces ==
    {Str(<<"\\", "x", "4", "1">>), Str(<<"\\", "x", "4">>), Str(<<"\\", "x", "g", "1">>),
     Str(<<"\\", "0">>), Str(<<"\\", "1", "0", "1">>),
     Str(<<"\\", "7", "7", "7", "7", "7", "7", "7">>),
     Str(<<"\\", "1", "5", "4", "0", "0", "0">>),
     Str(<<"\\", "3", "7", "7", "7", "7", "7", "7", "7", "7", "7", "7">>),
     Str(<<"\\", "4", "0", "0", "0", "0", "0", "0", "0", "1", "0", "1">>),
     Str(<<"\\", "7", "7", "7", "7", "7", "7", "7", "7", "7", "7", "7", "7">>)}

Pieces == CharPieces \cup BytePieces

Quotes == {Ch["'"], Ch["\""]}

\* a literal: the opening quote, the pieces of the body, the closing quote
Literals ==
    [quote : Quotes, pieces : SeqsUpTo(Pieces, MaxElems), close : Quotes,
     registry : {BuiltinFunctionRegistry}]

LiteralText(l) == <<l.quote>> \o Flatten(l.pieces) \o <<l.close>>

InitUnescape ==
    /\ overflow_checks \in BOOLEAN
    /\ tree = <<NullLeaf>>
    /\ cur = 1
    /\ query \in Literals
    /\ nodes = <<>>
    /\ located = <<>>
    /\ outcome = NoOutcome
    /\ text = Str(<<"$", "[">>) \o LiteralText(query) \o Str(<<"]">>)
    /\ parsed = <<>>
    /\ pc = "start"

NextUnescape == RunParserStep

SpecUnescape == InitUnescape /\ [][NextUnescape]_vars

Unspecified == <<"Unspecified">>

IsHexDigit(c) == c \in (48..57) \cup (65..70) \cup (97..102)
HexValue(c) == IF c \in 48..57 THEN c - 48 ELSE IF c \in 65..70 THEN c - 55 ELSE c - 87

\* what the escapes of a literal denote, read from the character after the
\* opening quote on: the one-letter escapes, the escaped slash and
\* delimiting quote, \u with four hexadecimal digits of a code point that
\* is no surrogate; an unescaped delimiting quote ends the literal and must
\* be its last character; any other escape is left open
RECURSIVE Denoted(_, _, _)
Denoted(chars, quote, out) ==
    IF chars = <<>> THEN Err
    ELSE IF chars[1] = quote THEN (IF Len(chars) = 1 THEN Ok(out) ELSE Err)
    ELSE IF chars[1] # Ch["\\"] THEN Denoted(Tail(chars), quote, Append(out, chars[1]))
    ELSE IF Len(chars) < 2 THEN Err
    ELSE LET e == chars[2]
             rest == SubSeq(chars, 3, Len(chars))
             push(ch) == Denoted(rest, quote, Append(out, ch))
             code == HexValue(rest[1]) * 4096 + HexValue(rest[2]) * 256
                     + HexValue(rest[3]) * 16 + HexValue(rest[4])
         IN  CASE e = Ch["b"] -> push(8)
               [] e = Ch["f"] -> push(12)
               [] e = Ch["n"] -> push(10)
               [] e = Ch["r"] -> push(13)
               [] e = Ch["t"] -> push(9)
               [] e = Ch["\\"] -> push(92)
               [] e = 47 -> push(47)
               [] e = quote -> push(quote)
               [] e = Ch["u"] ->
                     IF Len(rest) >= 4 /\ (\A i \in 1..4 : IsHexDigit(rest[i]))
                        /\ code \notin 55296..57343
                     THEN Denoted(SubSeq(rest, 5, Len(rest)), quote, Append(out, code))
                     ELSE Err
               [] OTHER -> Unspecified

\* the query $['name']
NameQueryOf(name) == Query("Root", <<QuerySegment("Child", LongHand(<<Name(name)>>))>>)

\* C24: a string literal is unescaped with \b \f \n \r \t \\ \/ and the
\* escaped delimiting quote standing for backspace, form feed, line feed,
\* carriage return, tab, backslash, slash and the quote; \u is accepted
\* only with exactly four hexadecimal digits of a code point that is no
\* surrogate; a literal that closes with the other quote, or holds an
\* unescaped delimiting quote before its end, is a parse error.
C24_Unescape ==
    pc = "parsed" =>
        LET denoted == Denoted(Tail(LiteralText(query)), query.quote, <<>>)
        IN  \/ denoted = Unspecified
            \/ denoted = Err /\ ~IsOk(parsed)
            \/ IsOk(denoted) /\ parsed = Ok(NameQueryOf(denoted[2]))

\* escapes that denote no character: octal escapes of a value past
\* U+10FFFF, of a surrogate, and of values that do not fit 32 bits; \u
\* escapes of surrogates; a \x escape of no hexadecimal digit
InvalidCharPieces ==
    {Str(<<"\\", "7", "7", "7", "7", "7", "7", "7">>),
     Str(<<"\\", "1", "5", "4", "0", "0", "0">>),
     Str(<<"\\", "3", "7", "7", "7", "7", "7", "7", "7", "7", "7", "7">>),
     Str(<<"\\", "4", "0", "0", "0", "0", "0", "0", "0", "1", "0", "1">>),
     Str(<<"\\", "7", "7", "7", "7", "7", "7", "7", "7", "7", "7", "7", "7">>),
     Str(<<"\\", "u", "d", "8", "0", "0">>), Str(<<"\\", "u", "d", "f", "f", "f">>),
     Str(<<"\\", "x", "g", "1">>)}

\* C30: unescaping a string literal returns the string or a parse error and
\* never panics or overflows; an octal escape of any length and value, a \x
\* and a \u escape that denote no character are reported as errors.
C30_UnescapeNeverPanics ==
    pc = "parsed" =>
        /\ parsed # Panic
        /\ (query.quote = query.close /\ Len(query.pieces) = 1
            /\ query.pieces[1] \in InvalidCharPieces) => parsed[1] = "Cut"

(***************************************************************************)
(* Specification SpecConcat: a root query of one bracketed segment of up   *)
(* to MaxLen selectors, or of two segments, applied to arrays and objects. *)
(***************************************************************************)
\* ["a", "b", "c", "d", "e", "f", "g"], the strings by rank
LettersExample ==
    <<Arr(<<2, 3, 4, 5, 6, 7, 8>>)>> \o [i \in 1..7 |-> StringLeaf(i)]

\* [[1, 2], [3], {"a": 4, "j": 5}]
NestedExample ==
    << Arr(<<2, 5, 7>>), Arr(<<3, 4>>), NumberLeaf(1), NumberLeaf(2),
       Arr(<<6>>), NumberLeaf(3), Obj(<<"a", "j">>, <<8, 9>>), NumberLeaf(4), NumberLeaf(5) >>

ConcatTrees == {LettersExample, NestedExample, ExampleTree}

\* 0  3  5  -1  0:2  *  'a'  'j'
ConcatSelectors ==
    { Index(0), Index(3), Index(5), Index(0 - 1), Slice(Some(0), Some(2), None),
      Wildcard, Name("a"), Name("j") }

ConcatSegments == {LongHand(sels) : sels \in SeqsUpTo(ConcatSelectors, MaxLen) \ {<<>>}}

\* [*]  [0,0]  [-1,0]  ['a','o']
ConcatPrefixes ==
    { LongHand(<<Wildcard>>), LongHand(<<Index(0), Index(0)>>),
      LongHand(<<Index(0 - 1), Index(0)>>), LongHand(<<Name("a"), Name("o")>>) }

ConcatQueries ==
    {Query("Root", <<QuerySegment("Child", s)>>) : s \in ConcatSegments}
    \cup {Query("Root", <<QuerySegment("Child", p), QuerySegment("Child", LongHand(sels))>>) :
            p \in ConcatPrefixes, sels \in SeqsUpTo(ConcatSelectors, 2) \ {<<>>}}

InitConcat ==
    /\ overflow_checks = TRUE
    /\ tree \in ConcatTrees
    /\ cur = 1
    /\ query \in ConcatQueries
    /\ nodes = <<>>
    /\ located = <<>>
    /\ outcome = NoOutcome
    /\ text = <<>>
    /\ parsed = <<>>
    /\ pc = "start"

SpecConcat == InitConcat /\ [][NextQuery]_vars

\* s1(v) ++ ... ++ sn(v)
RECURSIVE SelectorsOn(_, _, _)
SelectorsOn(T, sels, v) ==
    IF sels = <<>> THEN <<>>
    ELSE SelectorQuery(T, Head(sels), v, 1) \o SelectorsOn(T, Tail(sels), v)

\* the segment applied to every node of a list, in list order
RECURSIVE SegmentOn(_, _, _)
SegmentOn(T, sels, list) ==
    IF list = <<>> THEN <<>>
    ELSE SelectorsOn(T, sels, Head(list)) \o SegmentOn(T, sels, Tail(list))

\* C25: a bracketed child segment with selectors s1..sn applied to a node v
\* yields s1(v) ++ ... ++ sn(v) in written order, duplicates kept; a query
\* applies each segment in order to every node of the previous node list,
\* in list order, and concatenates.
C25_SegmentsConcatenate ==
    pc # "start" =>
        /\ Len(query.segments) = 1 =>
              nodes = SelectorsOn(tree, query.segments[1].segment.selectors, 1)
        /\ Len(query.segments) = 2 =>
              nodes = SegmentOn(tree, query.segments[2].segment.selectors,
                          SelectorsOn(tree, query.segments[1].segment.selectors, 1))
        /\ (tree = LettersExample /\ query.segments = <<QuerySegment("Child", LongHand(<<Index(0), Index(0)>>))>>)
              => nodes = <<2, 2>>

\* $[0:2, 5] on the seven letters selected "a", "b", "f"; and $[0,0][*,0]
\* on [[1, 2], ...] selected 1, 2, 1, 1, 2, 1
C25_Witness ==
    \/ /\ pc = "queried"
       /\ tree = LettersExample
       /\ query.segments = <<QuerySegment("Child",
                               LongHand(<<Slice(Some(0), Some(2), None), Index(5)>>))>>
       /\ nodes = <<2, 3, 7>>
    \/ /\ pc = "queried"
       /\ tree = NestedExample
       /\ query.segments = <<QuerySegment("Child", LongHand(<<Index(0), Index(0)>>)),
                             QuerySegment("Child", LongHand(<<Wildcard, Index(0)>>))>>
       /\ nodes = <<3, 4, 3, 3, 4, 3>>

(***************************************************************************)
(* Specification SpecSliceLoop: Slice::query on a flat array, one loop     *)
(* iteration at a time; the loop is left when its condition fails or when  *)
(* the step addition has no value.                                         *)
(***************************************************************************)
\* Option<Integer>: absent, the ends of the safe range, around zero and the
\* array's ends
LoopParams ==
    {None} \cup {Some(i) : i \in {MIN, 0 - MaxLen - 1, 0 - 1, 0, 1, 2, MaxLen, MAX}}

LoopSelectors == {Slice(a, b, c) : a \in LoopParams, b \in LoopParams, c \in LoopParams}

\* the loop variable, the bounds, the step, the positions passed to
\* list.get, and whether the loop was left by `break`
LoopState(i, lower, upper, step, reads, broke) ==
    [i |-> i, lower |-> lower, upper |-> upper, step |-> step, reads |-> reads, broke |-> broke]

InitSliceLoop ==
    /\ overflow_checks = TRUE
    /\ tree \in {FlatArray(n) : n \in 0..MaxLen}
    /\ cur = 1
    /\ query \in LoopSelectors
    /\ nodes = <<>>
    /\ located = <<>>
    /\ outcome = LoopState(0, 0, 0, 0, <<>>, FALSE)
    /\ text = <<>>
    /\ parsed = <<>>
    /\ pc = "start"

\* Slice::query up to the loop: the early returns and the bounds
SliceEnter ==
    /\ pc = "start"
    /\ LET list == as_array(tree, cur)[1]
           step == unwrap_or(query.step, 1)
           len == IntegerTryFrom(Len(list))
           enter(i, lower, upper) ==
               /\ outcome' = LoopState(i, lower, upper, step, <<>>, FALSE)
               /\ pc' = "loop"
           return == outcome' = outcome /\ pc' = "done"
       IN  IF step = 0 \/ len = None THEN return
           ELSE IF step > 0
           THEN LET b == bounds_on_forward_slice(query, len[1])
                IN  enter(b[1], b[1], b[2])
           ELSE LET b == bounds_on_reverse_slice(query, len[1])
                IN  IF b = None THEN return ELSE enter(b[1][2], b[1][1], b[1][2])
    /\ UNCHANGED <<overflow_checks, tree, cur, query, nodes, located, text, parsed>>

\* one pass of `while i < upper` or `while lower < i`
SliceIterate ==
    /\ pc = "loop"
    /\ LET list == as_array(tree, cur)[1]
           i == outcome.i
           go == IF outcome.step > 0 THEN i < outcome.upper ELSE outcome.lower < i
           v == IF i >= 0 THEN ArrayGet(list, i) ELSE None
           reads == IF i >= 0 THEN Append(outcome.reads, i) ELSE outcome.reads
           next == checked_add(i, outcome.step)
       IN  IF ~go THEN pc' = "done" /\ UNCHANGED <<outcome, nodes>>
           ELSE /\ nodes' = IF v = None THEN nodes ELSE Append(nodes, v[1])
                /\ outcome' = LoopState(IF next = None THEN i ELSE next[1], outcome.lower,
                                        outcome.upper, outcome.step, reads, next = None)
                /\ pc' = IF next = None THEN "done" ELSE "loop"
    /\ UNCHANGED <<overflow_checks, tree, cur, query, located, text, parsed>>

NextSliceLoop == SliceEnter \/ SliceIterate

\* the loop is not suspended: a pass that can be taken is taken
SpecSliceLoop == InitSliceLoop /\ [][NextSliceLoop]_vars /\ WF_vars(NextSliceLoop)

\* the loop variable and the bounds are safe integers, every position read
\* is inside the array, a `break` was taken only when the step addition
\* leaves the safe range, and the nodes collected are those of Slice::query
SliceLoopSafe ==
    /\ \A x \in {outcome.i, outcome.lower, outcome.upper, outcome.step} : MIN <= x /\ x <= MAX
    /\ \A r \in 1..Len(outcome.reads) :
          0 <= outcome.reads[r] /\ outcome.reads[r] < Len(tree[1].kids)
    /\ Len(nodes) = Len(outcome.reads)
    /\ outcome.broke =>
          /\ pc = "done"
          /\ outcome.i + outcome.step < MIN \/ outcome.i + outcome.step > MAX
    /\ pc = "done" => nodes = SliceQuery(tree, query, cur)
    /\ (pc = "done" /\ ~outcome.broke /\ outcome.step # 0) =>
          IF outcome.step > 0 THEN outcome.i >= outcome.upper ELSE outcome.i <= outcome.lower

\* C26: for every array and every slice with safe-integer parameters, also
\* at the ends of the range, the evaluation of the slice terminates, no
\* integer it produces is outside the safe range (a step addition that
\* would leave it ends the iteration), and no position outside [0, L) is
\* read.
C26_SliceLoopTerminatesSafely == [](SliceLoopSafe) /\ <>(pc = "done")

\* [1::MAX] on an array of MaxLen elements read position 1 and was left by
\* the break
C26_Witness ==
    /\ pc = "done"
    /\ outcome.broke
    /\ query.start = Some(1)
    /\ query.step = Some(MAX)
    /\ outcome.reads = <<1>>
    /\ Len(tree[1].kids) = MaxLen

(***************************************************************************)
(* json.rs and toml.rs: is_less_than of the two backends.  A value is an   *)
(* integer, a float held doubled (so that 1.5 is 3), a string, a boolean   *)
(* or null.  f64 has a mantissa of SafeBits bits, as the safe range is the *)
(* range of integers an f64 holds exactly.                                 *)
(***************************************************************************)
BackendInt(i) == [t |-> "int", v |-> i]
BackendFloat(doubled) == [t |-> "float", v |-> doubled]
BackendStr(s) == [t |-> "str", s |-> s]
BackendBool(b) == [t |-> "bool", b |-> b]
BackendNull == [t |-> "null"]

IsBackendNumber(a) == a.t \in {"int", "float"}

\* the distance between neighbouring f64 around n
RECURSIVE F64Spacing(_, _)
F64Spacing(n, s) == IF Abs(n) < (2^SafeBits) * s THEN s ELSE F64Spacing(n, 2 * s)

\* `n as f64`: the nearest f64, a tie going to the even mantissa
IntAsF64(n) ==
    LET s == F64Spacing(n, 1)
        q == n \div s
        r == n % s
    IN  IF 2 * r < s THEN q * s
        ELSE IF 2 * r > s THEN (q + 1) * s
        ELSE IF q % 2 = 0 THEN q * s ELSE (q + 1) * s

\* serde_json::Number::as_i128 and as_f64 (doubled)
as_i128(n) == IF n.t = "int" THEN Some(n.v) ELSE None
as_f64(n) == IF n.t = "float" THEN Some(n.v) ELSE Some(2 * IntAsF64(n.v))

\* number_less_than of json.rs
json_number_less_than(left, right) ==
    IF as_i128(left) # None /\ as_i128(right) # None THEN as_i128(left)[1] < as_i128(right)[1]
    ELSE IF as_f64(left) # None /\ as_f64(right) # None THEN as_f64(left)[1] < as_f64(right)[1]
    ELSE FALSE

\* <serde_json::Value as VariantValue>::is_less_than
json_is_less_than(a, b) ==
    CASE IsBackendNumber(a) /\ IsBackendNumber(b) -> json_number_less_than(a, b)
      [] a.t = "str" /\ b.t = "str" -> StrCmp(a.s, b.s) = "Less"
      [] OTHER -> FALSE

\* NumCmp::num_lt of an i64 and an f64 (doubled): the exact comparison
num_lt(l, r) == l < r

\* <toml::Value as VariantValue>::is_less_than
toml_is_less_than(a, b) ==
    CASE a.t = "int" /\ b.t = "float" -> num_lt(2 * a.v, b.v)
      [] a.t = "float" /\ b.t = "int" -> num_lt(a.v, 2 * b.v)
      [] a.t = "str" /\ b.t = "str" -> StrCmp(a.s, b.s) = "Less"
      [] OTHER -> FALSE

(***************************************************************************)
(* Specification SpecBackend: is_less_than of a backend on two values.     *)
(***************************************************************************)
\* integers around zero, 5, and around the largest integer an f64 holds
\* exactly; the floats 0.5, 1.0, 1.5, 5.0 and 2^SafeBits; four strings; a
\* boolean; null (JSON only)
BackendValues(backend) ==
    {BackendInt(i) : i \in {0 - 1, 0, 1, 2, 5, MAX, MAX + 1, MAX + 2}}
    \cup {BackendFloat(d) : d \in {1, 2, 3, 10, 2 * (MAX + 1)}}
    \cup {BackendStr(s) : s \in {<<>>, Str(<<"a">>), Str(<<"a", "b">>), Str(<<"b">>)}}
    \cup {BackendBool(TRUE)}
    \cup (IF backend = "json" THEN {BackendNull} ELSE {})

InitBackend ==
    /\ overflow_checks = TRUE
    /\ tree = <<NullLeaf>>
    /\ cur = 1
    /\ query \in UNION {[backend : {b}, left : BackendValues(b), right : BackendValues(b)] :
                           b \in {"json", "toml"}}
    /\ nodes = <<>>
    /\ located = <<>>
    /\ outcome = NoOutcome
    /\ text = <<>>
    /\ parsed = <<>>
    /\ pc = "start"

IsLessThanStep ==
    /\ pc = "start"
    /\ outcome' = IF query.backend = "json" THEN json_is_less_than(query.left, query.right)
                  ELSE toml_is_less_than(query.left, query.right)
    /\ pc' = "compared"
    /\ UNCHANGED <<overflow_checks, tree, cur, query, nodes, located, text, parsed>>

NextBackend == IsLessThanStep

SpecBackend == InitBackend /\ [][NextBackend]_vars

\* twice the number a value denotes
Doubled(a) == IF a.t = "int" THEN 2 * a.v ELSE a.v

\* C27: on each backend is_less_than(a, b) of two numbers is true exactly
\* when a is numerically smaller than b, whatever their subtypes (two TOML
\* integers included); two strings compare by string order; values of
\* different non-numeric types are never less than each other.
C27_BackendLessThan ==
    pc = "compared" =>
        LET a == query.left
            b == query.right
        IN  /\ (IsBackendNumber(a) /\ IsBackendNumber(b)) =>
                  (outcome <=> Doubled(a) < Doubled(b))
            /\ (a.t = "str" /\ b.t = "str") => (outcome <=> StrCmp(a.s, b.s) = "Less")
            /\ (a.t # b.t /\ ~(IsBackendNumber(a) /\ IsBackendNumber(b))) => ~outcome

(***************************************************************************)
(* spath.rs: SPath::eval, the evaluator that returns a value.  A result is *)
(* a node of the heap, [node |-> n], or an array made by the evaluation    *)
(* from nodes of the heap, [array |-> nodes].                              *)
(***************************************************************************)
\* resolve_index of spath.rs
spath_resolve_index(index, len) ==
    LET idx == IF index >= 0 THEN index ELSE len + index
    IN  IF idx < 0 THEN None
        ELSE IF idx < len THEN Some(idx) ELSE None

\* EvalSelector::eval, for the wildcard, name and index selectors
EvalSelectorEval(T, sel, at) ==
    CASE sel.k = "wildcard" ->
            IF as_array(T, at) # None \/ as_object(T, at) # None
            THEN Some([array |-> T[at].kids]) ELSE None
      [] sel.k = "name" ->
            IF as_object(T, at) = None THEN None
            ELSE LET v == ObjectGet(T, at, sel.name)
                 IN  IF v = None THEN None ELSE Some([node |-> v[1]])
      [] sel.k = "index" ->
            IF as_array(T, at) = None THEN None
            ELSE LET idx == spath_resolve_index(sel.index, Len(T[at].kids))
                 IN  IF idx = None THEN None
                     ELSE Some([node |-> T[at].kids[idx[1] + 1]])

\* the loop `for selector in selectors` of EvalSegment::eval
RECURSIVE EvalSelectors(_, _, _)
EvalSelectors(T, sels, at) ==
    IF sels = <<>> THEN <<>>
    ELSE LET res == EvalSelectorEval(T, Head(sels), at)
         IN  (IF res = None THEN <<>> ELSE <<res[1]>>) \o EvalSelectors(T, Tail(sels), at)

(***************************************************************************)
(* Specification SpecDescend: the work-list loop of a descendant segment   *)
(* of SPath::eval, one pass at a time.                                     *)
(***************************************************************************)
\* ..*  ..j  ..[0]  ..[0, 1]  ..[-1, *]
DescendSelectors ==
    { <<Wildcard>>, <<Name("j")>>, <<Index(0)>>, <<Index(0), Index(1)>>,
      <<Index(0 - 1), Wildcard>> }

\* the queue, the nodes visited so far, the results collected so far
WorkList(queue, visited, result) == [queue |-> queue, visited |-> visited, result |-> result]

InitDescend ==
    /\ overflow_checks = TRUE
    /\ tree \in Trees
    /\ cur = 1
    /\ query \in DescendSelectors
    /\ nodes = <<>>
    /\ located = <<>>
    /\ outcome = WorkList(<<1>>, <<>>, <<>>)
    /\ text = <<>>
    /\ parsed = <<>>
    /\ pc = "loop"

\* one pass of `while let Some(value) = queue.pop()`: Vec::pop takes the
\* last entry; the values of an object come in the order of their keys
DescendVisit ==
    /\ pc = "loop"
    /\ IF outcome.queue = <<>>
       THEN pc' = "done" /\ outcome' = outcome
       ELSE LET popped == outcome.queue[Len(outcome.queue)]
                rest == SubSeq(outcome.queue, 1, Len(outcome.queue) - 1)
                children == IF as_object(tree, popped) # None \/ as_array(tree, popped) # None
                            THEN tree[popped].kids ELSE <<>>
            IN  /\ outcome' = WorkList(rest \o children, Append(outcome.visited, popped),
                                       outcome.result \o EvalSelectors(tree, query, popped))
                /\ pc' = "loop"
    /\ UNCHANGED <<overflow_checks, tree, cur, query, nodes, located, text, parsed>>

NextDescend == DescendVisit

SpecDescend == InitDescend /\ [][NextDescend]_vars /\ WF_vars(NextDescend)

\* the position of a node in the visiting order, 0 when it was not visited
VisitedAt(v) ==
    IF \E i \in 1..Len(outcome.visited) : outcome.visited[i] = v
    THEN CHOOSE i \in 1..Len(outcome.visited) : outcome.visited[i] = v
    ELSE 0

\* the results of the selectors on each node of a list, in list order
RECURSIVE ResultsOn(_, _, _)
ResultsOn(T, sels, list) ==
    IF list = <<>> THEN <<>>
    ELSE EvalSelectors(T, sels, Head(list)) \o ResultsOn(T, sels, Tail(list))

\* each node is visited once, and before its children
VisitedOnceParentsFirst ==
    /\ \A i \in 1..Len(outcome.visited) : \A j \in 1..Len(outcome.visited) :
          outcome.visited[i] = outcome.visited[j] => i = j
    /\ pc = "done" => Range(outcome.visited) = Reachable(tree, {1})
    /\ \A v \in Range(outcome.visited) : \A c \in Range(tree[v].kids) :
          VisitedAt(c) = 0 \/ VisitedAt(v) < VisitedAt(c)

\* the children of an array, and of an object by its keys, are visited in order
ChildrenInOrder ==
    \A v \in 1..Len(tree) : \A i \in 1..Len(tree[v].kids) : \A j \in 1..Len(tree[v].kids) :
        (i < j /\ (tree[v].t = "obj" => Ch[tree[v].keys[i]] < Ch[tree[v].keys[j]]))
            => VisitedAt(tree[v].kids[i]) < VisitedAt(tree[v].kids[j])

\* C28: the work-list loop of a descendant segment visits the input node
\* and each of its descendants exactly once, a node before its descendants,
\* the nodes of an array in array order and the children of an object in
\* the order of their keys; the results are collected in visiting order.
C28_DescendantVisitOrder ==
    pc = "done" =>
        /\ VisitedOnceParentsFirst
        /\ ChildrenInOrder
        /\ outcome.result = ResultsOn(tree, query, outcome.visited)

(***************************************************************************)
(* Specification SpecSingular: a singular query of up to two name and      *)
(* index segments, evaluated by SingularQuery::eval_query and, as the      *)
(* query of the same segments, by Query::query.                            *)
(***************************************************************************)
\* ['a']  ['j']  [0]  [1]  [5]  [-1]  [-2]
SingularSelectors ==
    {Name("a"), Name("j"), Index(0), Index(1), Index(5), Index(0 - 1), Index(0 - 2)}

SingularQueries ==
    {SingularQuery(kind, segs) :
        kind \in {"Absolute", "Relative"}, segs \in SeqsUpTo(SingularSelectors, 2)}

\* the query with the segments of a singular query
OrdinaryQuery(sq) ==
    Query(IF sq.kind = "Absolute" THEN "Root" ELSE "Current",
          [i \in 1..Len(sq.segments) |-> QuerySegment("Child", LongHand(<<sq.segments[i]>>))])

InitSingular ==
    /\ overflow_checks = TRUE
    /\ tree \in {ExampleTree, NestedExample}
    /\ cur \in 1..Len(tree)
    /\ query \in SingularQueries
    /\ nodes = <<>>
    /\ located = <<>>
    /\ outcome = NoOutcome
    /\ text = <<>>
    /\ parsed = <<>>
    /\ pc = "start"

EvalQueryStep ==
    /\ pc = "start"
    /\ outcome' = eval_query(tree, query, cur, 1)
    /\ nodes' = QueryQuery(tree, OrdinaryQuery(query), cur, 1)
    /\ pc' = "evaluated"
    /\ UNCHANGED <<overflow_checks, tree, cur, query, located, text, parsed>>

NextSingular == EvalQueryStep

SpecSingular == InitSingular /\ [][NextSingular]_vars

\* C29: SingularQuery::eval_query returns exactly the node that the same
\* segments select as an ordinary query, and Nothing exactly when that
\* query selects nothing, negative indices included.
C29_SingularAsQuery ==
    pc = "evaluated" =>
        IF nodes = <<>> THEN outcome = None ELSE outcome = Some(nodes[1]) /\ Len(nodes) = 1

====
